---- MODULE Spec2Model ----
(***************************************************************************)
(* A model of Upcora: the document text extraction and normalisation of   *)
(* server/lib/fileProcessing.ts, the keyword extraction of                 *)
(* server/lib/mediaService.ts, the client-side quiz scoring of GameView,   *)
(* and the upload / process / score routes of the server with the         *)
(* persistent records they read and write.                                 *)
(*                                                                         *)
(* Text is a sequence of characters; a character is a one-element string.  *)
(* Numbers that JavaScript holds as doubles are integers here; the values  *)
(* the model draws are small enough that every quotient the code forms is  *)
(* either exact or far from the thresholds it is compared with.            *)
(***************************************************************************)
EXTENDS Integers, Sequences, FiniteSets, TLC

VARIABLES
  arg,        \* the input of the pure function under analysis
  ret,        \* its result, NoRet before the call
  users,      \* prisma.user: id -> record
  uploads,    \* prisma.upload: id -> record
  sessions,   \* prisma.gameSession: id -> record
  scores,     \* prisma.score: sequence of records, in creation order
  req,        \* the request the server handled last
  resp,       \* the response it sent
  quiz,       \* the state of the quiz the client shows (InteractiveQuiz)
  gamesRouter, \* the file whose router serves /api/games in this build
  handlers,   \* the handlers suspended at an await, by connection
  client,     \* the state of the client outside the quiz (AuthProvider, GameView)
  auditLogs   \* prisma.auditLog: sequence of records, in creation order

vars == <<arg, ret, users, uploads, sessions, scores, req, resp, quiz, gamesRouter,
         handlers, client, auditLogs>>

NoRet == [none |-> TRUE]
NoArg == [none |-> TRUE]
NoClient == [none |-> TRUE]

\* the connections the server has open, and a connection with no request
Connections == {1, 2}

Idle == [pc |-> "idle"]

AllIdle == [c \in Connections |-> Idle]

Range(s) == {s[i] : i \in 1..Len(s)}

Indices(s) == [i \in 1..Len(s) |-> i]

Min(a, b) == IF a < b THEN a ELSE b

\* All sequences over S of length at most n.
SeqsUpTo(S, n) == UNION {[1..k -> S] : k \in 0..n}

\* n copies of the character c.
Repeat(c, n) == [i \in 1..n |-> c]

(***************************************************************************)
(* Characters.  WS is the class \s of the regular expressions (and the set *)
(* String.prototype.trim strips).                                          *)
(***************************************************************************)
WS == {" ", "\n", "\t"}

NUL == "\\x00"

YUML == "\\xFF"

REPLACEMENT == "\\uFFFD"

(***************************************************************************)
(* Buffer.toString('utf-8').  A buffer is a sequence of bytes; an ASCII    *)
(* byte is written as its character, other bytes in hex.  C3 BF decodes to *)
(* U+00FF, a byte that starts or continues no valid sequence decodes to    *)
(* U+FFFD.                                                                 *)
(***************************************************************************)
HighBytes == {"C3", "BF", "FF"}

\* A BF that follows a C3 is the second byte of that character.
Utf8Continues(b, i) == b[i] = "BF" /\ i > 1 /\ b[i - 1] = "C3"

Utf8CharAt(b, i) ==
  IF b[i] = "C3" /\ i < Len(b) /\ b[i + 1] = "BF" THEN YUML
  ELSE IF b[i] \in HighBytes THEN REPLACEMENT
  ELSE IF b[i] = "00" THEN NUL
  ELSE b[i]

BufferToString(b) ==
  LET starts == SelectSeq(Indices(b), LAMBDA i : ~Utf8Continues(b, i))
  IN  [k \in 1..Len(starts) |-> Utf8CharAt(b, starts[k])]

(***************************************************************************)
(* The clean-up of extractTextFromFile.                                    *)
(***************************************************************************)
\* The first index at or after i that holds no whitespace (Len(s)+1 if none).
RECURSIVE SkipWs(_, _)
SkipWs(s, i) == IF i <= Len(s) /\ s[i] \in WS THEN SkipWs(s, i + 1) ELSE i

\* The last index at or before i that holds no whitespace (0 if none).
RECURSIVE SkipWsBack(_, _)
SkipWsBack(s, i) == IF i >= 1 /\ s[i] \in WS THEN SkipWsBack(s, i - 1) ELSE i

\* .replace(/\s+/g, ' '): every maximal run of whitespace becomes one space.
ReplaceWsRunsBroken(s) ==
  LET starts == SelectSeq(Indices(s),
                  LAMBDA i : s[i] # " " \/ i = 1 \/ s[i - 1] # " ")
  IN  [k \in 1..Len(starts) |-> s[starts[k]]]

ReplaceWsRuns(s) ==
  LET starts == SelectSeq(Indices(s),
                  LAMBDA i : s[i] \notin WS \/ i = 1 \/ s[i - 1] \notin WS)
  IN  [k \in 1..Len(starts) |->
         IF s[starts[k]] \in WS THEN " " ELSE s[starts[k]]]

\* .replace(/\n\s*\n/g, '\n\n'): \s* is greedy, so a match starts at the
\* first newline of a run of whitespace and ends at the last newline of that
\* run; what lies between the two newlines is dropped.
InsideBlankLines(s, i) ==
  /\ s[i] \in WS
  /\ \E a \in (SkipWsBack(s, i) + 1)..(i - 1) : s[a] = "\n"
  /\ \E b \in (i + 1)..(SkipWs(s, i) - 1) : s[b] = "\n"

ReplaceBlankLines(s) ==
  LET kept == SelectSeq(Indices(s), LAMBDA i : ~InsideBlankLines(s, i))
  IN  [k \in 1..Len(kept) |-> s[kept[k]]]

\* String.prototype.trim
TrimNothing(s) == s

Trim(s) == SubSeq(s, SkipWs(s, 1), SkipWsBack(s, Len(s)))

\* lines 253-256
CleanUp(text) == Trim(ReplaceBlankLines(ReplaceWsRuns(text)))

\* text.split(/\s+/).length: one more than the number of whitespace runs.
SplitWsLength(s) ==
  1 + Len(SelectSeq(Indices(s),
            LAMBDA i : s[i] \in WS /\ (i = 1 \/ s[i - 1] \notin WS)))

MIN_TEXT_LENGTH == 100

(***************************************************************************)
(* extractTextFromPPTX.  The archive JSZip loaded is a sequence of entries *)
(* in the order forEach visits them.  An entry has the path of the part    *)
(* (its kind, and for ppt/slides/slideN.xml the digits N it spells), the   *)
(* XML as the paragraphs (<a:p>) it holds, each the sequence of the texts  *)
(* of its runs (<a:t>), and whether reading the part throws.               *)
(***************************************************************************)
Err(m) == [threw |-> TRUE, message |-> m, text |-> <<>>]

Val(t) == [threw |-> FALSE, message |-> <<>>, text |-> t]

Digits == <<"0", "1", "2", "3", "4", "5", "6", "7", "8", "9">>

DigitValue(c) == (CHOOSE i \in 1..Len(Digits) : Digits[i] = c) - 1

\* parseInt of the digits \d+ matched
RECURSIVE ParseInt(_)
ParseInt(digits) ==
  IF digits = <<>> THEN 0
  ELSE 10 * ParseInt(SubSeq(digits, 1, Len(digits) - 1))
         + DigitValue(digits[Len(digits)])

\* the order of the paths as strings: of slideM.xml and slideN.xml the one
\* whose digits are a proper prefix of the other's comes first ("." < "0")
SlideBeforeLexical(a, b) ==
  \E k \in 1..Len(a.num) :
    /\ \A i \in 1..(k - 1) : i <= Len(b.num) /\ a.num[i] = b.num[i]
    /\ IF k <= Len(b.num) THEN DigitValue(a.num[k]) < DigitValue(b.num[k])
       ELSE FALSE
  \/ (Len(a.num) < Len(b.num) /\ SubSeq(b.num, 1, Len(a.num)) = a.num)

\* the comparator is negative: aNum - bNum < 0
SlideBefore(a, b) == ParseInt(a.num) < ParseInt(b.num)

\* a.sort((a, b) => aNum - bNum): Array.prototype.sort is stable.
RECURSIVE InsertByNum(_, _)
InsertByNum(sorted, e) ==
  IF sorted = <<>> THEN <<e>>
  ELSE IF SlideBefore(e, sorted[Len(sorted)])
    THEN InsertByNum(SubSeq(sorted, 1, Len(sorted) - 1), e)
           \o <<sorted[Len(sorted)]>>
  ELSE Append(sorted, e)

RECURSIVE SortSlidesUpTo(_, _)
SortSlidesUpTo(files, n) ==
  IF n = 0 THEN <<>> ELSE InsertByNum(SortSlidesUpTo(files, n - 1), files[n])

SortSlidesArchiveOrder(files) == files

SortSlides(files) == SortSlidesUpTo(files, Len(files))

\* [..].join(' ')
RECURSIVE JoinFrom(_, _, _)
JoinFrom(parts, sep, i) ==
  IF i > Len(parts) THEN <<>>
  ELSE IF i = Len(parts) THEN parts[i]
  ELSE parts[i] \o sep \o JoinFrom(parts, sep, i + 1)

Join(parts, sep) == JoinFrom(parts, sep, 1)

RECURSIVE Flatten(_)
Flatten(ss) == IF ss = <<>> THEN <<>> ELSE Head(ss) \o Flatten(Tail(ss))

\* .filter((text, index, array) => array.indexOf(text) === index)
Dedupe(a) ==
  SelectSeq([i \in 1..Len(a) |-> [ix |-> i, v |-> a[i]]],
            LAMBDA e : \A j \in 1..(e.ix - 1) : a[j] # e.v)

Values(es) == [i \in 1..Len(es) |-> es[i].v]

\* the <a:t> runs of a part with a non-empty body ([^<]+), tags removed, trimmed
RunTexts(xml) ==
  LET runs    == SelectSeq(Flatten(xml), LAMBDA r : r # <<>>)
      trimmed == [i \in 1..Len(runs) |-> Trim(runs[i])]
  IN  SelectSeq(trimmed, LAMBDA t : Len(t) > 0)

\* a matched <a:p>...</a:p> with every tag replaced by a space, whitespace
\* collapsed, trimmed
ParagraphText(p) ==
  Trim(ReplaceWsRuns(<<" ">> \o
         Flatten([i \in 1..Len(p) |-> <<" ">> \o p[i] \o <<" ">>]) \o <<" ">>))

ParagraphTexts(xml) ==
  SelectSeq([i \in 1..Len(xml) |-> ParagraphText(xml[i])],
            LAMBDA t : Len(t) > 0)

\* lines 86-106
SlideText(xml) ==
  Trim(Join(Values(Dedupe(RunTexts(xml) \o ParagraphTexts(xml))), <<" ">>))

\* lines 81-116
RECURSIVE SlidesText(_, _)
SlidesText(files, i) ==
  IF i > Len(files) THEN <<>>
  ELSE LET t == IF files[i].readError THEN <<>> ELSE SlideText(files[i].xml)
       IN  (IF t # <<>> THEN t \o <<"\n", "\n">> ELSE <<>>)
             \o SlidesText(files, i + 1)

\* String.prototype.includes
Includes(s, sub) ==
  \E i \in 1..(Len(s) - Len(sub) + 1) : SubSeq(s, i, i + Len(sub) - 1) = sub

StartsWith(s, p) == Len(s) >= Len(p) /\ SubSeq(s, 1, Len(p)) = p

UpperLetters == <<"A", "C", "S", "T", "W">>

LowerLetters == <<"a", "c", "s", "t", "w">>

ToLowerChar(c) ==
  IF \E i \in 1..Len(UpperLetters) : UpperLetters[i] = c
  THEN LowerLetters[CHOOSE i \in 1..Len(UpperLetters) : UpperLetters[i] = c]
  ELSE c

ToLowerCase(s) == [i \in 1..Len(s) |-> ToLowerChar(s[i])]

\* /^(Click to edit|Add your|Sample)/i
PlaceholderPrefixes ==
  { <<"c", "l", "i", "c", "k", " ", "t", "o", " ", "e", "d", "i", "t">>,
    <<"a", "d", "d", " ", "y", "o", "u", "r">>,
    <<"s", "a", "m", "p", "l", "e">> }

IsPlaceholder(t) == \E p \in PlaceholderPrefixes : StartsWith(ToLowerCase(t), p)

\* lines 124-128
MasterText(xml) ==
  Join(SelectSeq(RunTexts(xml), LAMBDA t : ~IsPlaceholder(t)), <<" ">>)

MasterKinds == <<"slideMaster1", "slideLayout1">>

\* lines 119-137: pptxData.file(name) is the last entry of that name
RECURSIVE AddMasters(_, _, _)
AddMasters(zip, text, k) ==
  IF k > Len(MasterKinds) THEN text
  ELSE LET found == {i \in 1..Len(zip) : zip[i].kind = MasterKinds[k]}
           e     == zip[CHOOSE i \in found : \A j \in found : j <= i]
           t     == IF found = {} \/ e.readError THEN <<>> ELSE MasterText(e.xml)
       IN  AddMasters(zip,
             IF t # <<>> /\ ~Includes(text, t) THEN text \o t \o <<"\n", "\n">>
             ELSE text,
             k + 1)

NoTextInPptx == <<"No text content found in PowerPoint file">>

\* lines 56-150; lib is what loading the buffer as a ZIP archive gives
extractTextFromPPTX(lib) ==
  IF lib.threw THEN Err(<<"Failed to parse PowerPoint file: ">> \o lib.message)
  ELSE LET slideFiles == SelectSeq(lib.zip, LAMBDA e : e.kind = "slide")
           text == AddMasters(lib.zip, SlidesText(SortSlides(slideFiles), 1), 1)
       IN  IF Trim(text) = <<>> THEN Err(NoTextInPptx) ELSE Val(Trim(text))

(***************************************************************************)
(* extractTextFromFile.  An error is its message, a sequence of the pieces *)
(* the template literals put together.  lib is what the parsing library of *)
(* the branch (pdf-parse, mammoth, JSZip) does with the buffer: it throws  *)
(* a message, or yields text (and pages), or the archive.                  *)
(***************************************************************************)
MIME_PDF == "application/pdf"

MIME_DOCX ==
  "application/vnd.openxmlformats-officedocument.wordprocessingml.document"

MIME_DOC == "application/msword"

MIME_PPTX ==
  "application/vnd.openxmlformats-officedocument.presentationml.presentation"

LegacyPptTypes ==
  {"application/vnd.ms-powerpoint", "application/powerpoint",
   "application/x-mspowerpoint"}

MIME_TEXT == "text/plain"

\* lines 42-52
ALLOWED_MIME_TYPES ==
  {MIME_PDF, MIME_DOCX, MIME_PPTX, MIME_DOC, MIME_TEXT} \cup LegacyPptTypes

\* The messages the libraries throw in the model, and the keys that
\* message.includes(key) finds in them.
LibMessages ==
  { "ENOENT: no such file or directory, open './test/data/05-versions-space.pdf'",
    "Invalid PDF structure",
    "PDF library not available. Please try converting your PDF to text format.",
    "Word document processing library not available. Please try uploading a text file.",
    "PowerPoint processing library not available. Please try uploading a text file.",
    "Can't find end of central directory : is this a zip file ?",
    "unexpected end of file" }

IncludesTable ==
  { <<"ENOENT: no such file or directory, open './test/data/05-versions-space.pdf'", "ENOENT">>,
    <<"ENOENT: no such file or directory, open './test/data/05-versions-space.pdf'", "test/data">>,
    <<"Invalid PDF structure", "Invalid PDF">>,
    <<"PDF library not available. Please try converting your PDF to text format.",
      "PDF library not available">>,
    <<"No text content found in PDF. The PDF may be image-based or protected. Please try saving as a text file.",
      "No text content found">>,
    <<"No text content found in PowerPoint file", "No text content found">>,
    <<"Legacy PPT format not supported. Please save your PowerPoint as PPTX format for text extraction.",
      "Legacy PPT format">> }

MessageIncludes(m, key) == \E i \in 1..Len(m) : <<m[i], key>> \in IncludesTable

NoTextInPdf ==
  <<"No text content found in PDF. The PDF may be image-based or protected. Please try saving as a text file.">>

\* lines 179-194
PdfCatch(m) ==
  IF MessageIncludes(m, "ENOENT") \/ MessageIncludes(m, "test/data")
    THEN Err(<<"PDF processing library not properly installed. Please try uploading a text file instead.">>)
  ELSE IF MessageIncludes(m, "Invalid PDF")
    THEN Err(<<"Invalid or corrupted PDF file. Please try re-saving the PDF or converting to text format.">>)
  ELSE IF MessageIncludes(m, "PDF library not available") THEN Err(m)
  ELSE IF MessageIncludes(m, "No text content found") THEN Err(m)
  ELSE Err(<<"Failed to process PDF: ">> \o m \o
           <<". Please try saving as a text file or ensure the PDF contains readable text.">>)

\* lines 169-195
PdfBranch(lib) ==
  IF lib.threw THEN PdfCatch(lib.message)
  ELSE IF Trim(lib.text) = <<>> THEN PdfCatch(NoTextInPdf)
  ELSE Val(lib.text)

\* lines 197-206
WordBranch(lib) ==
  IF lib.threw
  THEN Err(<<"Failed to process Word document: ">> \o lib.message \o
           <<". Please try saving as a text file.">>)
  ELSE Val(lib.text)

LegacyPpt ==
  <<"Legacy PPT format not supported. Please save your PowerPoint as PPTX format for text extraction.">>

\* lines 220-232
PptCatch(m) ==
  IF MessageIncludes(m, "No text content found")
    THEN Err(<<"No readable text found in PowerPoint file. Please ensure your slides contain text content, or try saving each slide as a text file.">>)
  ELSE IF MessageIncludes(m, "Legacy PPT format") THEN Err(m)
  ELSE Err(<<"Failed to process PowerPoint: ">> \o m \o
           <<". Please try saving slides as a text file or ensure the file is a valid PPTX format.">>)

\* lines 208-233
PowerPointBranch(mimeType, lib) ==
  IF mimeType = MIME_PPTX
  THEN LET r == extractTextFromPPTX(lib)
       IN  IF r.threw THEN PptCatch(r.message) ELSE r
  ELSE PptCatch(LegacyPpt)

UNREADABLE_BELOW == 10

Unsupported(mimeType) ==
  <<"Unsupported file type: ", mimeType,
    ". Please upload PDF, Word, PowerPoint, or text files.">>

\* lines 239-249
DefaultBranch(mimeType, buffer) ==
  LET text == BufferToString(buffer)
  IN  IF Len(text) < UNREADABLE_BELOW \/ NUL \in Range(text) \/ YUML \in Range(text)
      THEN Err(Unsupported(mimeType))
      ELSE Val(text)

\* lines 168-250: the switch on the MIME type
BranchText(buffer, mimeType, lib) ==
  IF mimeType = MIME_PDF THEN PdfBranch(lib)
  ELSE IF mimeType \in {MIME_DOCX, MIME_DOC} THEN WordBranch(lib)
  ELSE IF mimeType \in {MIME_PPTX} \cup LegacyPptTypes
    THEN PowerPointBranch(mimeType, lib)
  ELSE IF mimeType = MIME_TEXT THEN Val(BufferToString(buffer))
  ELSE DefaultBranch(mimeType, buffer)

TooShort == <<"File appears to be empty or too short for processing">>

ExtractFailed(m) ==
  [ok |-> FALSE, error |-> <<"Failed to extract text from file: ">> \o m,
   text |-> <<>>, metadata |-> [none |-> TRUE]]

Extracted(text, fileName, mimeType, pages) ==
  [ok |-> TRUE, error |-> <<>>, text |-> text,
   metadata |-> [fileName |-> fileName, fileType |-> mimeType, pages |-> pages,
                 wordCount |-> SplitWsLength(text)]]

\* line 258
IsTooShortOnlyEmpty(text) == text = <<>>

IsTooShortInclusive(text) == Len(text) <= MIN_TEXT_LENGTH

IsTooShort(text) == text = <<>> \/ Len(text) < MIN_TEXT_LENGTH

\* lines 163-277
extractTextFromFile(buffer, fileName, mimeType, lib) ==
  LET b == BranchText(buffer, mimeType, lib)
  IN  IF b.threw THEN ExtractFailed(b.message)
      ELSE LET text == CleanUp(b.text)
           IN  IF IsTooShort(text) THEN ExtractFailed(TooShort)
               ELSE Extracted(text, fileName, mimeType,
                      IF mimeType = MIME_PDF /\ ~lib.threw THEN lib.numpages
                      ELSE "undefined")

(***************************************************************************)
(* The inputs of extractTextFromFile the model draws.                      *)
(***************************************************************************)
MaxGap == 2

PadChars == {" ", "\n", "\t", "b"}

\* Lengths of the filler that put the text on both sides of the minimum.
FillLengths == (MIN_TEXT_LENGTH - 4)..(MIN_TEXT_LENGTH - 1)

\* a lead, a letter, a gap, a filler of letters, a trail
PlainBuffers ==
  { lead \o <<"a">> \o gap \o Repeat("a", k) \o trail :
      lead \in SeqsUpTo(PadChars, 1), gap \in SeqsUpTo(PadChars, MaxGap),
      trail \in SeqsUpTo(PadChars, 1), k \in FillLengths }

NoLib == [threw |-> FALSE, message |-> <<>>, text |-> <<>>, numpages |-> 0,
          zip |-> <<>>]

LibThrew(m) == [NoLib EXCEPT !.threw = TRUE, !.message = <<m>>]

LibText(t, n) == [NoLib EXCEPT !.text = t, !.numpages = n]

LibZip(z) == [NoLib EXCEPT !.zip = z]

\* what pdf-parse and mammoth yield
ParsedTexts ==
  { <<>>, <<" ", "\n">>, Repeat("a", 5),
    Repeat("a", MIN_TEXT_LENGTH - 1), Repeat("a", MIN_TEXT_LENGTH),
    <<" ">> \o Repeat("a", MIN_TEXT_LENGTH - 1) \o <<"\n", "\n">>,
    Repeat("a", 60) \o <<"\n", " ", "\n">> \o Repeat("b", 60) }

\* the decimal digits of n, as a path spells them
RECURSIVE Numeral(_)
Numeral(n) ==
  IF n < 10 THEN <<Digits[n + 1]>>
  ELSE Append(Numeral(n \div 10), Digits[(n % 10) + 1])

Part(kind, num, xml) ==
  [kind |-> kind, num |-> Numeral(num), xml |-> xml, readError |-> FALSE]

\* the parts archives are made of
PartPool ==
  << Part("slide", 2, << <<Repeat("b", 40)>>, << <<"b", " ">>, <<>>, <<"c">> >> >>),
     Part("slide", 10, << <<Repeat("d", 60), Repeat("d", 60)>> >>),
     Part("slide", 1, << <<Repeat("a", 50)>> >>),
     Part("slideMaster1", 0,
          << << <<"S", "a", "m", "p", "l", "e", " ", "a">>, Repeat("e", 30)>> >>),
     [Part("slide", 3, << <<Repeat("c", 70)>> >>) EXCEPT !.readError = TRUE],
     Part("slideLayout1", 0, << <<Repeat("e", 30)>> >>),
     Part("presentation", 0, << <<Repeat("f", 99)>> >>) >>

MaxParts == 2

\* archives: up to MaxParts distinct parts of the pool, in any order
Archives ==
  { z \in SeqsUpTo(1..Len(PartPool), MaxParts) :
      \A i, j \in 1..Len(z) : i # j => z[i] # z[j] }

ArchiveOf(z) == [i \in 1..Len(z) |-> PartPool[z[i]]]

UnknownBuffers ==
  { Repeat("a", 5), Repeat("a", MIN_TEXT_LENGTH), Repeat("a", MIN_TEXT_LENGTH - 1),
    Repeat("a", MIN_TEXT_LENGTH) \o <<"00">>,
    Repeat("a", MIN_TEXT_LENGTH) \o <<"C3", "BF">>,
    Repeat("a", MIN_TEXT_LENGTH) \o <<"FF">> }

FileArg(buffer, mimeType, lib) ==
  [fn |-> "extractTextFromFile", buffer |-> buffer, fileName |-> "notes",
   mimeType |-> mimeType, lib |-> lib]

ExtractArgs ==
  { FileArg(b, MIME_TEXT, NoLib) : b \in PlainBuffers }
  \cup { FileArg(<<>>, m, LibText(t, 3)) :
           m \in {MIME_PDF, MIME_DOCX, MIME_DOC}, t \in ParsedTexts }
  \cup { FileArg(<<>>, m, LibThrew(e)) :
           m \in {MIME_PDF, MIME_DOCX, MIME_DOC, MIME_PPTX}, e \in LibMessages }
  \cup { FileArg(<<>>, MIME_PPTX, LibZip(ArchiveOf(z))) : z \in Archives }
  \cup { FileArg(<<>>, m, NoLib) : m \in LegacyPptTypes }
  \cup { FileArg(b, "application/json", NoLib) : b \in UnknownBuffers }

NoQuiz == [none |-> TRUE]

InitServerIdle ==
  /\ quiz = NoQuiz
  /\ gamesRouter = "games.ts"
  /\ users = <<>>
  /\ uploads = <<>>
  /\ sessions = <<>>
  /\ scores = <<>>
  /\ req = NoArg
  /\ resp = NoRet
  /\ handlers = AllIdle
  /\ client = NoClient
  /\ auditLogs = <<>>

InitExtract ==
  /\ arg \in ExtractArgs
  /\ ret = NoRet
  /\ InitServerIdle

\* a call of extractTextFromFile
ExtractTextFromFile ==
  /\ arg.fn = "extractTextFromFile"
  /\ ret = NoRet
  /\ ret' = extractTextFromFile(arg.buffer, arg.fileName, arg.mimeType, arg.lib)
  /\ UNCHANGED <<arg, users, uploads, sessions, scores, req, resp, quiz, gamesRouter, client, handlers, auditLogs>>

NextExtract == ExtractTextFromFile

SpecExtract == InitExtract /\ [][NextExtract]_vars

(***************************************************************************)
(* Properties of extractTextFromFile.                                      *)
(***************************************************************************)
Called(fn) == arg # NoArg /\ arg.fn = fn /\ ret # NoRet

NonWs(s) == SelectSeq(s, LAMBDA c : c \notin WS)

\* After how many non-whitespace characters the text has internal whitespace.
Breaks(s) ==
  { Len(NonWs(SubSeq(s, 1, i))) : i \in {j \in 1..Len(s) : s[j] \in WS} }
    \ {0, Len(NonWs(s))}

\* out is t with every internal run of whitespace collapsed to a single
\* space and with no leading or trailing whitespace.
IsCollapsed(out, t) ==
  /\ NonWs(out) = NonWs(t)
  /\ Breaks(out) = Breaks(t)
  /\ \A i \in 1..Len(out) :
       out[i] \in WS => /\ out[i] = " "
                        /\ 1 < i /\ i < Len(out)
                        /\ out[i - 1] \notin WS

CollapsedLength(t) == Len(NonWs(t)) + Cardinality(Breaks(t))

PlainInput == BufferToString(arg.buffer)

\* C1 as stated: every text/plain input of at least 100 characters is
\* extracted, to the input with its whitespace collapsed and trimmed.
C1_AsStated ==
  (Called("extractTextFromFile") /\ arg.mimeType = MIME_TEXT
     /\ Len(PlainInput) >= MIN_TEXT_LENGTH)
  => (ret.ok /\ IsCollapsed(ret.text, PlainInput))

\* C1 (amended): every text/plain input whose text, with whitespace runs
\* collapsed to single spaces and trimmed, still has at least 100 characters
\* is extracted, and the text returned is exactly that collapsed, trimmed
\* text; wordCount is the number of its words.
C1_PlainTextCollapsed ==
  (Called("extractTextFromFile") /\ arg.mimeType = MIME_TEXT
     /\ CollapsedLength(PlainInput) >= MIN_TEXT_LENGTH)
  => /\ ret.ok
     /\ IsCollapsed(ret.text, PlainInput)
     /\ ret.metadata.wordCount = Cardinality(Breaks(PlainInput)) + 1

C1_Witness ==
  /\ Called("extractTextFromFile") /\ arg.mimeType = MIME_TEXT
  /\ ret.ok
  /\ Len(ret.text) = MIN_TEXT_LENGTH
  /\ Len(PlainInput) = MIN_TEXT_LENGTH + 3
  /\ PlainInput[1] = "\n"
  /\ \E i \in 2..(Len(PlainInput) - 2) : PlainInput[i] = "\t" /\ PlainInput[i + 1] = "\n"

\* C2: whenever the branch of the MIME type yields text and that text is
\* shorter than 100 characters after the clean-up, extraction fails with the
\* too-short error; and no ExtractedContent ever carries a text shorter than
\* 100 characters.
C2_ShortTextRejected ==
  Called("extractTextFromFile") =>
    LET b == BranchText(arg.buffer, arg.mimeType, arg.lib)
    IN  /\ (~b.threw /\ Len(CleanUp(b.text)) < MIN_TEXT_LENGTH)
             => (~ret.ok /\ ret.text = <<>>
                   /\ ret.error = <<"Failed to extract text from file: ">> \o TooShort)
        /\ ret.ok => Len(ret.text) >= MIN_TEXT_LENGTH

C2_Witness ==
  /\ Called("extractTextFromFile") /\ arg.mimeType = MIME_PDF
  /\ ~arg.lib.threw /\ Len(arg.lib.text) > MIN_TEXT_LENGTH
  /\ ~ret.ok /\ ret.error = <<"Failed to extract text from file: ">> \o TooShort

(***************************************************************************)
(* truncateTextForAI                                                       *)
(***************************************************************************)
\* line 295
MaxCharsOneMore(maxTokens) == maxTokens * 4 + 1

MaxChars(maxTokens) == maxTokens * 4

\* String.prototype.lastIndexOf, as the 0-based index (-1 if absent)
LastIndexOf(s, c) ==
  LET at == {i \in 1..Len(s) : s[i] = c}
  IN  IF at = {} THEN -1 ELSE (CHOOSE i \in at : \A j \in at : j <= i) - 1

\* String.prototype.substring(0, n)
Substring0(s, n) == SubSeq(s, 1, IF n < 0 THEN 0 ELSE Min(n, Len(s)))

Ellipsis == <<".", ".", ".">>

\* line 305: lastSentence > maxChars * 0.8
AfterEightyPercentInclusive(lastSentence, maxChars) == 10 * lastSentence >= 8 * maxChars

AfterEightyPercent(lastSentence, maxChars) == 10 * lastSentence > 8 * maxChars

\* lines 293-311
truncateTextForAI(text, maxTokens) ==
  LET maxChars     == MaxChars(maxTokens)
      truncated    == Substring0(text, maxChars)
      lastSentence == LastIndexOf(truncated, ".")
  IN  IF Len(text) <= maxChars THEN text
      ELSE IF AfterEightyPercent(lastSentence, maxChars)
        THEN Substring0(truncated, lastSentence + 1)
      ELSE truncated \o Ellipsis

MaxTokens == 2

MaxTextLen == 10

\* texts of 21 and 22 characters with up to two '.' among the characters
\* 15 to 22, for a budget of 5 tokens: 80% of its 20 characters is the
\* whole number 16
BudgetArgs ==
  { [fn |-> "truncateTextForAI",
     text |-> [i \in 1..L |-> IF i \in dots THEN "." ELSE "a"],
     maxTokens |-> 5] :
      L \in 21..22, dots \in {d \in SUBSET (15..22) : Cardinality(d) <= 2} }

TruncateArgs ==
  { [fn |-> "truncateTextForAI", text |-> t, maxTokens |-> n] :
      t \in SeqsUpTo({"a", "."}, MaxTextLen), n \in 0..MaxTokens }
  \cup BudgetArgs

InitTruncate ==
  /\ arg \in TruncateArgs
  /\ ret = NoRet
  /\ InitServerIdle

\* a call of truncateTextForAI
TruncateTextForAI ==
  /\ arg.fn = "truncateTextForAI"
  /\ ret = NoRet
  /\ ret' = [value |-> truncateTextForAI(arg.text, arg.maxTokens)]
  /\ UNCHANGED <<arg, users, uploads, sessions, scores, req, resp, quiz, gamesRouter, client, handlers, auditLogs>>

NextTruncate == TruncateTextForAI

SpecTruncate == InitTruncate /\ [][NextTruncate]_vars

\* C3: the result of truncateTextForAI(text, n) is never longer than
\* 4*n + 3 characters, and it is the text itself whenever the text has at
\* most 4*n characters.
C3_TruncateBound ==
  Called("truncateTextForAI") =>
    /\ Len(ret.value) <= 4 * arg.maxTokens + 3
    /\ Len(arg.text) <= 4 * arg.maxTokens => ret.value = arg.text

C3_Witness ==
  /\ Called("truncateTextForAI")
  /\ arg.maxTokens = 2
  /\ Len(arg.text) > 4 * arg.maxTokens
  /\ Len(ret.value) = 4 * arg.maxTokens + 3
  /\ ret.value[2] = "."

(***************************************************************************)
(* extractKeyConceptsFromText.  A word is a sequence of characters.        *)
(***************************************************************************)
LowerCaseLetters ==
  {"a", "b", "c", "d", "e", "f", "g", "h", "i", "j", "k", "l", "m", "n", "o",
   "p", "q", "r", "s", "t", "u", "v", "w", "x", "y", "z"}

\* \w
WordChars == LowerCaseLetters \cup Range(UpperLetters) \cup Range(Digits) \cup {"_"}

\* .replace(/[^\w\s]/g, " ")
ReplaceNonWord(s) ==
  [i \in 1..Len(s) |-> IF s[i] \in WordChars \cup WS THEN s[i] ELSE " "]

\* The first index at or after i that holds whitespace (Len(s)+1 if none).
RECURSIVE SkipWord(_, _)
SkipWord(s, i) == IF i <= Len(s) /\ s[i] \notin WS THEN SkipWord(s, i + 1) ELSE i

\* .split(/\s+/), without the empty strings a leading or trailing run of
\* whitespace gives (the length filter drops them)
SplitWs(s) ==
  LET starts == SelectSeq(Indices(s),
                  LAMBDA i : s[i] \notin WS /\ (i = 1 \/ s[i - 1] \in WS))
  IN  [k \in 1..Len(starts) |-> SubSeq(s, starts[k], SkipWord(s, starts[k]) - 1)]

\* line 28: word.length > 3
LongEnoughFrom3(word) == Len(word) >= 3

LongEnough(word) == Len(word) > 3

\* lines 31-93
stopWords ==
  { <<"t", "h", "i", "s">>,
    <<"t", "h", "a", "t">>,
    <<"w", "i", "t", "h">>,
    <<"h", "a", "v", "e">>,
    <<"w", "i", "l", "l">>,
    <<"f", "r", "o", "m">>,
    <<"t", "h", "e", "y">>,
    <<"b", "e", "e", "n">>,
    <<"w", "e", "r", "e">>,
    <<"t", "h", "e", "i", "r">>,
    <<"s", "a", "i", "d">>,
    <<"e", "a", "c", "h">>,
    <<"w", "h", "i", "c", "h">>,
    <<"m", "o", "r", "e">>,
    <<"v", "e", "r", "y">>,
    <<"w", "h", "a", "t">>,
    <<"k", "n", "o", "w">>,
    <<"j", "u", "s", "t">>,
    <<"f", "i", "r", "s", "t">>,
    <<"a", "l", "s", "o">>,
    <<"a", "f", "t", "e", "r">>,
    <<"b", "a", "c", "k">>,
    <<"o", "t", "h", "e", "r">>,
    <<"m", "a", "n", "y">>,
    <<"t", "h", "a", "n">>,
    <<"t", "h", "e", "n">>,
    <<"t", "h", "e", "m">>,
    <<"t", "h", "e", "s", "e">>,
    <<"s", "o", "m", "e">>,
    <<"h", "e", "r">>,
    <<"w", "o", "u", "l", "d">>,
    <<"m", "a", "k", "e">>,
    <<"l", "i", "k", "e">>,
    <<"i", "n", "t", "o">>,
    <<"h", "i", "m">>,
    <<"h", "a", "s">>,
    <<"t", "w", "o">>,
    <<"g", "o">>,
    <<"n", "o">>,
    <<"w", "a", "y">>,
    <<"c", "o", "u", "l", "d">>,
    <<"m", "y">>,
    <<"w", "a", "t", "e", "r">>,
    <<"c", "a", "l", "l">>,
    <<"w", "h", "o">>,
    <<"i", "t", "s">>,
    <<"n", "o", "w">>,
    <<"f", "i", "n", "d">>,
    <<"l", "o", "n", "g">>,
    <<"d", "o", "w", "n">>,
    <<"d", "a", "y">>,
    <<"d", "i", "d">>,
    <<"g", "e", "t">>,
    <<"c", "o", "m", "e">>,
    <<"m", "a", "d", "e">>,
    <<"m", "a", "y">>,
    <<"p", "a", "r", "t">> }

\* line 98
IsStopWordNever(word) == FALSE

IsStopWord(word) == word \in stopWords

\* line 103: the accumulator reduce starts from; prev is the accumulator the
\* call before this one built
InitialAccKept(prev) == prev

InitialAcc(prev) == <<>>

\* lines 96-104: the own properties of acc in creation order, each with the
\* count of its word
CountWords(words, acc0) ==
  LET counted == SelectSeq(words, LAMBDA w : ~IsStopWord(w))
      old     == [i \in 1..Len(acc0) |-> acc0[i].word]
      keys    == Values(Dedupe(old \o counted))
      Before(w) == IF \E i \in 1..Len(acc0) : acc0[i].word = w
                   THEN acc0[CHOOSE i \in 1..Len(acc0) : acc0[i].word = w].count
                   ELSE 0
  IN  [k \in 1..Len(keys) |->
         [word |-> keys[k],
          count |-> Before(keys[k])
                      + Cardinality({i \in 1..Len(counted) : counted[i] = keys[k]})]]

\* a < b for two numerals without leading zeros
NumeralLess(a, b) ==
  \/ Len(a) < Len(b)
  \/ /\ Len(a) = Len(b)
     /\ \E k \in 1..Len(a) :
          /\ SubSeq(a, 1, k - 1) = SubSeq(b, 1, k - 1)
          /\ DigitValue(a[k]) < DigitValue(b[k])

\* 2^32 - 2, the largest array index
MaxArrayIndex == <<"4", "2", "9", "4", "9", "6", "7", "2", "9", "4">>

\* A property key that is an array index: the digits of an integer below
\* 2^32 - 1 without a leading zero.
IsIntegerKey(w) ==
  /\ w # <<>>
  /\ \A i \in 1..Len(w) : w[i] \in Range(Digits)
  /\ (w[1] # "0" \/ Len(w) = 1)
  /\ ~NumeralLess(MaxArrayIndex, w)

\* The entries of the sequence es in the order of their ranks; rank maps
\* the indices of es one-to-one onto 0..Len(es)-1.
Ranked(es, rank) ==
  [k \in 1..Len(es) |-> es[CHOOSE i \in 1..Len(es) : rank[i] = k - 1]]

\* Object.entries: integer keys in ascending numeric order, then the other
\* keys in creation order
ObjectEntries(acc) ==
  LET ints == {i \in 1..Len(acc) : IsIntegerKey(acc[i].word)}
      Rank(i) ==
        IF i \in ints
        THEN Cardinality({j \in ints : NumeralLess(acc[j].word, acc[i].word)})
        ELSE Cardinality(ints) + Cardinality({j \in 1..(i - 1) : j \notin ints})
  IN  Ranked(acc, [i \in 1..Len(acc) |-> Rank(i)])

\* .sort(([, a], [, b]) => b - a): stable, by descending count
SortByCount(es) ==
  LET Rank(i) ==
        Cardinality({j \in 1..Len(es) : es[j].count > es[i].count})
          + Cardinality({j \in 1..(i - 1) : es[j].count = es[i].count})
  IN  Ranked(es, [i \in 1..Len(es) |-> Rank(i)])

TOP_CONCEPTS == 10

\* .slice(0, 10)
SliceTopOneMore(es) == SubSeq(es, 1, Min(Len(es), TOP_CONCEPTS + 1))

SliceTop(es) == SubSeq(es, 1, Min(Len(es), TOP_CONCEPTS))

\* lines 24-28
ConceptWords(text) ==
  SelectSeq(SplitWs(ReplaceNonWord(ToLowerCase(text))), LongEnough)

\* lines 22-113; the result with the accumulator the call built
extractKeyConceptsFromText(text, prev) ==
  LET wordCount   == CountWords(ConceptWords(text), InitialAcc(prev))
      sortedWords == SliceTop(SortByCount(ObjectEntries(wordCount)))
  IN  [value |-> [i \in 1..Len(sortedWords) |-> sortedWords[i].word],
       wordCount |-> wordCount]

(***************************************************************************)
(* The texts extractKeyConceptsFromText is called with: up to MaxExtra     *)
(* words of a pool, alone or before or after a passage of 11 distinct      *)
(* words.  (No text of the model holds the words "constructor" or          *)
(* "__proto__", for which acc[word] reads a property of Object.prototype.) *)
(***************************************************************************)
Passage ==
  <<"a", "l", "p", "h", "a", " ", "b", "e", "t", "a", "2", " ", "g",
    "a", "m", "m", "a", " ", "d", "e", "l", "t", "a", " ", "e", "p", "s",
    "i", "l", "o", "n", " ", "z", "e", "t", "a", "1", " ", "t", "h", "e",
    "t", "a", " ", "i", "o", "t", "a", "9", " ", "k", "a", "p", "p", "a",
    " ", "l", "a", "m", "b", "d", "a", " ", "s", "i", "g", "m", "a">>

WordPool ==
  << <<"c", "e", "l", "l">>,
     <<"T", "h", "a", "t">>,
     <<"W", "a", "t", "e", "r", ",">>,
     <<"2", "0", "2", "4">>,
     <<"1", "9", "9", "9">>,
     <<"c", "a", "t">>,
     <<"m", "o", "r", "e">>,
     <<"d", "o", "n", "'", "t">>,
     <<"s", "i", "g", "m", "a">>,
     <<"0", "1", "2", "3">>,
     <<"w", "e", "l", "l", "-", "b", "e", "i", "n", "g">>,
     <<"C", "e", "l", "l">> >>

MaxExtra == 2

MaxCalls == 2

ExtraWords(z) == Join([i \in 1..Len(z) |-> WordPool[z[i]]], <<" ">>)

ConceptTexts ==
  LET extras == {ExtraWords(z) : z \in SeqsUpTo(1..Len(WordPool), MaxExtra)}
  IN  extras
        \cup {e \o <<"\n">> \o Passage : e \in extras}
        \cup {Passage \o <<".", " ">> \o e : e \in extras}

ConceptArgs == {[fn |-> "extractKeyConceptsFromText", text |-> t] : t \in ConceptTexts}

InitConcepts ==
  /\ arg \in ConceptArgs
  /\ ret = NoRet
  /\ InitServerIdle

\* a call of extractKeyConceptsFromText, after the calls made so far
ExtractKeyConceptsFromText ==
  /\ arg.fn = "extractKeyConceptsFromText"
  /\ IF ret = NoRet THEN TRUE ELSE ret.calls < MaxCalls
  /\ LET r == extractKeyConceptsFromText(arg.text,
                IF ret = NoRet THEN <<>> ELSE ret.wordCount)
     IN  ret' = [calls |-> IF ret = NoRet THEN 1 ELSE ret.calls + 1,
                 value |-> r.value,
                 wordCount |-> r.wordCount,
                 first |-> IF ret = NoRet THEN r.value ELSE ret.first]
  /\ UNCHANGED <<arg, users, uploads, sessions, scores, req, resp, quiz, gamesRouter, client, handlers, auditLogs>>

NextConcepts == ExtractKeyConceptsFromText

SpecConcepts == InitConcepts /\ [][NextConcepts]_vars

\* C4: extractKeyConceptsFromText returns at most 10 items, none of them a
\* stopword, and every later call with the same text returns the list the
\* first call returned.
C4_ConceptsBounded ==
  Called("extractKeyConceptsFromText") =>
    /\ Len(ret.value) <= 10
    /\ \A i \in 1..Len(ret.value) : ret.value[i] \notin stopWords
    /\ ret.value = ret.first

C4_Witness ==
  /\ Called("extractKeyConceptsFromText")
  /\ ret.calls = 2
  /\ Len(ret.value) = 10
  /\ Len(ret.wordCount) > 10
  /\ Includes(arg.text, <<"T", "h", "a", "t">>)
  /\ ret.value[1] = <<"c", "e", "l", "l">>

(***************************************************************************)
(* JavaScript values of mixed type: undefined, a number, an object.        *)
(***************************************************************************)
Undefined == [kind |-> "undefined"]

Num(n) == [kind |-> "number", n |-> n]

Obj(zones) == [kind |-> "object", zones |-> zones]

\* a === b, for a number or undefined b
StrictEquals(a, b) ==
  /\ a.kind = b.kind
  /\ a.kind = "number" => a.n = b.n

(***************************************************************************)
(* calculateScore (GameView).  A question has an id, a type, its points    *)
(* (0 when the generator gave none), the items, categories and canonical   *)
(* mapping of a drag-drop question, and the number of options and the      *)
(* answerIndex of a multiple-choice question.                              *)
(***************************************************************************)
DEFAULT_POINTS == 10

\* question.points || 10
QuestionPoints(question) ==
  IF question.points = 0 THEN DEFAULT_POINTS ELSE question.points

\* the double loop over Object.entries(question.correctMapping) and
\* Object.entries(userAnswer)
CorrectUserMappingsAnyZone(question, userAnswer) ==
  IF userAnswer.kind # "object" THEN 0
  ELSE Cardinality(
         { item \in DOMAIN question.correctMapping :
             \E zone \in DOMAIN userAnswer.zones : item \in Range(userAnswer.zones[zone]) })

CorrectUserMappings(question, userAnswer) ==
  IF userAnswer.kind # "object" THEN 0
  ELSE Cardinality(
         { pair \in (DOMAIN question.correctMapping) \X (DOMAIN userAnswer.zones) :
             /\ pair[2] = question.correctMapping[pair[1]]
             /\ pair[1] \in Range(userAnswer.zones[pair[2]]) })

\* Math.floor((correctUserMappings / correctMappings) * questionPoints)
PartialCreditNone(correctUserMappings, correctMappings, questionPoints) == 0

PartialCreditRoundedUp(correctUserMappings, correctMappings, questionPoints) ==
  (correctUserMappings * questionPoints + correctMappings - 1) \div correctMappings

PartialCredit(correctUserMappings, correctMappings, questionPoints) ==
  (correctUserMappings * questionPoints) \div correctMappings

\* the body of the forEach: what one question adds to totalScore and to
\* correctAnswers
QuestionScore(question, userAnswer) ==
  LET questionPoints == QuestionPoints(question)
  IN  IF question.type = "drag-drop" /\ question.hasMapping
      THEN LET correctMappings     == Cardinality(DOMAIN question.correctMapping)
               correctUserMappings == CorrectUserMappings(question, userAnswer)
           IN  IF correctUserMappings = correctMappings
               THEN [score |-> questionPoints, correct |-> 1]
               ELSE [score |-> PartialCredit(correctUserMappings, correctMappings,
                                             questionPoints),
                     correct |-> 0]
      ELSE IF StrictEquals(userAnswer, question.answerIndex)
        THEN [score |-> questionPoints, correct |-> 1]
      ELSE [score |-> 0, correct |-> 0]

RECURSIVE ScoreUpTo(_, _, _)
ScoreUpTo(questions, selectedAnswers, n) ==
  IF n = 0 THEN [score |-> 0, maxScore |-> 0, correctAnswers |-> 0]
  ELSE LET sofar == ScoreUpTo(questions, selectedAnswers, n - 1)
           q     == questions[n]
           one   == QuestionScore(q, selectedAnswers[q.id])
       IN  [score |-> sofar.score + one.score,
            maxScore |-> sofar.maxScore + QuestionPoints(q),
            correctAnswers |-> sofar.correctAnswers + one.correct]

\* selectedAnswers[question.id] is undefined for a question not answered
calculateScore(questions, selectedAnswers) ==
  ScoreUpTo(questions, selectedAnswers, Len(questions))

(***************************************************************************)
(* InteractiveQuiz: the component that collects the answers.  Its state    *)
(* is currentQuestion and selectedAnswers (props owned by GameView), and   *)
(* draggedItem and dropZones (its own).  Positions count from 1 here.      *)
(***************************************************************************)
Null == <<"null">>

\* the effect that runs initializeDragDrop(question) when the question changes
initializeDragDrop(question, selectedAnswers, dropZones) ==
  IF question.type = "drag-drop" /\ question.categories # <<>>
  THEN LET answer == selectedAnswers[question.id]
       IN  [category \in Range(question.categories) |->
              IF answer.kind = "object" /\ category \in DOMAIN answer.zones
              THEN answer.zones[category] ELSE <<>>]
  ELSE dropZones

\* handleQuizAnswer: setSelectedAnswers(prev => ({...prev, [questionId]: answer}))
handleQuizAnswer(selectedAnswers, questionId, answer) ==
  [selectedAnswers EXCEPT ![questionId] = answer]

CurrentQuestion == quiz.questions[quiz.currentQuestion]

IsLastQuestion == quiz.currentQuestion = Len(quiz.questions)

HasAnswered == quiz.selectedAnswers[CurrentQuestion.id] # Undefined

\* Object.values(dropZones).flat()
Assigned(dropZones) == UNION { Range(dropZones[c]) : c \in DOMAIN dropZones }

UnassignedItems(question, dropZones) ==
  SelectSeq(question.items, LAMBDA item : item \notin Assigned(dropZones))

\* the zones handleDrop builds: the item leaves every zone and is pushed
\* onto the zone it was dropped on
DropIntoKeeping(dropZones, item, categoryId) ==
  [key \in DOMAIN dropZones \cup {categoryId} |->
     IF key = categoryId
     THEN Append(IF key \in DOMAIN dropZones THEN dropZones[key] ELSE <<>>, item)
     ELSE dropZones[key]]

DropInto(dropZones, item, categoryId) ==
  LET removed == [key \in DOMAIN dropZones |->
                    SelectSeq(dropZones[key], LAMBDA i : i # item)]
  IN  [key \in DOMAIN dropZones \cup {categoryId} |->
         IF key = categoryId
         THEN Append(IF key \in DOMAIN dropZones THEN removed[key] ELSE <<>>, item)
         ELSE removed[key]]

QuizShown == quiz # NoQuiz /\ ret = NoRet

HandleDragStart ==
  /\ QuizShown
  /\ CurrentQuestion.type = "drag-drop"
  /\ CurrentQuestion.items # <<>> /\ CurrentQuestion.categories # <<>>
  /\ \E item \in Range(UnassignedItems(CurrentQuestion, quiz.dropZones)) :
       quiz' = [quiz EXCEPT !.draggedItem = item]
  /\ UNCHANGED <<arg, ret, users, uploads, sessions, scores, req, resp, gamesRouter, client, handlers, auditLogs>>

HandleDrop ==
  /\ QuizShown
  /\ CurrentQuestion.type = "drag-drop"
  /\ CurrentQuestion.items # <<>> /\ CurrentQuestion.categories # <<>>
  /\ quiz.draggedItem # Null
  /\ \E categoryId \in Range(CurrentQuestion.categories) :
       LET newDropZones == DropInto(quiz.dropZones, quiz.draggedItem, categoryId)
       IN  quiz' = [quiz EXCEPT
                      !.dropZones = newDropZones,
                      !.selectedAnswers =
                         handleQuizAnswer(@, CurrentQuestion.id, Obj(newDropZones)),
                      !.draggedItem = Null]
  /\ UNCHANGED <<arg, ret, users, uploads, sessions, scores, req, resp, gamesRouter, client, handlers, auditLogs>>

SelectOption ==
  /\ QuizShown
  /\ CurrentQuestion.type # "drag-drop"
  /\ ~HasAnswered
  /\ \E index \in 0..(CurrentQuestion.options - 1) :
       quiz' = [quiz EXCEPT !.selectedAnswers =
                  handleQuizAnswer(@, CurrentQuestion.id, Num(index))]
  /\ UNCHANGED <<arg, ret, users, uploads, sessions, scores, req, resp, gamesRouter, client, handlers, auditLogs>>

ShowQuestion(n) ==
  quiz' = [quiz EXCEPT
             !.currentQuestion = n,
             !.dropZones = initializeDragDrop(quiz.questions[n],
                                              quiz.selectedAnswers, @)]

NextQuestion ==
  /\ QuizShown
  /\ ~IsLastQuestion
  /\ HasAnswered
  /\ ShowQuestion(quiz.currentQuestion + 1)
  /\ UNCHANGED <<arg, ret, users, uploads, sessions, scores, req, resp, gamesRouter, client, handlers, auditLogs>>

PreviousQuestion ==
  /\ QuizShown
  /\ quiz.currentQuestion # 1
  /\ ShowQuestion(quiz.currentQuestion - 1)
  /\ UNCHANGED <<arg, ret, users, uploads, sessions, scores, req, resp, gamesRouter, client, handlers, auditLogs>>

\* the Complete Quiz button: submitScore starts with calculateScore()
CompleteQuiz ==
  /\ QuizShown
  /\ IsLastQuestion
  /\ HasAnswered
  /\ arg' = [fn |-> "calculateScore"]
  /\ ret' = calculateScore(quiz.questions, quiz.selectedAnswers)
  /\ UNCHANGED <<users, uploads, sessions, scores, req, resp, quiz, gamesRouter, client, handlers, auditLogs>>

(***************************************************************************)
(* The quizzes shown: a drag-drop question over two categories, alone or   *)
(* next to a multiple-choice question, with and without points.            *)
(***************************************************************************)
MaxItems == 4

Item(n) == <<"item", n>>

Categories == <<"X", "Y">>

CanonicalCategory(n) == IF n % 2 = 1 THEN "X" ELSE "Y"

DragDropQuestion(T, points) ==
  [id |-> "q1", type |-> "drag-drop", points |-> points,
   items |-> [n \in 1..T |-> Item(n)],
   categories |-> Categories,
   hasMapping |-> TRUE,
   correctMapping |-> [item \in {Item(n) : n \in 1..T} |-> CanonicalCategory(item[2])],
   options |-> 0, answerIndex |-> Undefined]

ChoiceQuestion ==
  [id |-> "q2", type |-> "multiple-choice", points |-> 0,
   items |-> <<>>, categories |-> <<>>,
   hasMapping |-> FALSE, correctMapping |-> <<>>,
   options |-> 2, answerIndex |-> Num(1)]

PointsGiven == {0, 7}

Quizzes ==
  LET dd == { DragDropQuestion(T, points) : T \in 2..MaxItems, points \in PointsGiven }
  IN  { <<q>> : q \in dd }
        \cup { <<DragDropQuestion(2, 7), ChoiceQuestion>>,
               <<ChoiceQuestion, DragDropQuestion(2, 0)>> }

StartQuiz(questions) ==
  LET selectedAnswers == [id \in {questions[n].id : n \in 1..Len(questions)} |-> Undefined]
  IN  [questions |-> questions,
       currentQuestion |-> 1,
       selectedAnswers |-> selectedAnswers,
       draggedItem |-> Null,
       dropZones |-> initializeDragDrop(questions[1], selectedAnswers, <<>>)]

InitQuiz ==
  /\ arg = NoArg
  /\ ret = NoRet
  /\ users = <<>> /\ uploads = <<>> /\ sessions = <<>> /\ scores = <<>>
  /\ req = NoArg /\ resp = NoRet
  /\ gamesRouter = "games.ts"
  /\ handlers = AllIdle
  /\ client = NoClient
  /\ auditLogs = <<>>
  /\ \E questions \in Quizzes : quiz = StartQuiz(questions)

NextQuiz ==
  \/ HandleDragStart
  \/ HandleDrop
  \/ SelectOption
  \/ NextQuestion
  \/ PreviousQuestion
  \/ CompleteQuiz

SpecQuiz == InitQuiz /\ [][NextQuiz]_vars

(***************************************************************************)
(* C5.  A drag-drop question with T canonical pairs of which the answer    *)
(* places exactly k < T in their canonical category adds                   *)
(* floor(k / T * questionPoints) to the score and is not counted as a      *)
(* correct answer.                                                         *)
(***************************************************************************)
\* the items of the question that lie in the zone of their canonical category
PlacedCorrectly(question, answer) ==
  { n \in 1..Len(question.items) :
      \E m \in 1..Len(answer.zones[question.correctMapping[question.items[n]]]) :
        answer.zones[question.correctMapping[question.items[n]]][m] = question.items[n] }

DragDropAt(n) ==
  /\ quiz.questions[n].type = "drag-drop"
  /\ quiz.selectedAnswers[quiz.questions[n].id].kind = "object"

PartialAt(n) ==
  /\ DragDropAt(n)
  /\ Cardinality(PlacedCorrectly(quiz.questions[n],
                                 quiz.selectedAnswers[quiz.questions[n].id]))
       < Len(quiz.questions[n].items)

\* floor(k / T * points), as the largest integer f with f * T <= k * points
FloorOfShare(k, T, points) ==
  CHOOSE f \in 0..points : f * T <= k * points /\ (f + 1) * T > k * points

OtherQuestions ==
  SelectSeq(quiz.questions, LAMBDA q : q.type # "drag-drop")

C5_PartialCredit ==
  (Called("calculateScore") /\ \A n \in 1..Len(quiz.questions) :
                                 quiz.questions[n].type = "drag-drop" => PartialAt(n))
    => LET others == calculateScore(OtherQuestions, quiz.selectedAnswers)
           dd     == { n \in 1..Len(quiz.questions) : DragDropAt(n) }
       IN  \A n \in dd :
             LET q == quiz.questions[n]
                 k == Cardinality(PlacedCorrectly(q, quiz.selectedAnswers[q.id]))
                 T == Len(q.items)
                 points == IF q.points = 0 THEN 10 ELSE q.points
             IN  /\ ret.score = others.score + FloorOfShare(k, T, points)
                 /\ ret.correctAnswers = others.correctAnswers

C5_Witness ==
  /\ Called("calculateScore")
  /\ Len(quiz.questions) = 1
  /\ quiz.questions[1].points = 7
  /\ Len(quiz.questions[1].items) = 4
  /\ PartialAt(1)
  /\ Cardinality(PlacedCorrectly(quiz.questions[1], quiz.selectedAnswers["q1"])) = 2
  /\ ret.score = 3
  /\ ret.correctAnswers = 0

(***************************************************************************)
(* The server.  users, uploads, sessions and scores are the tables of the  *)
(* database; a row's id is its position in its table.  Two files define a  *)
(* router for /api/games: games.ts, whose routes take anonymous requests,  *)
(* and the second router of auth.ts, whose score route sits behind         *)
(* authenticate.  A build mounts one of them (gamesRouter).  An action is  *)
(* one request handled from start to end, so the requests of a behaviour   *)
(* are handled one after the other.                                        *)
(***************************************************************************)
NullId == 0

NoToken == 0

\* a token verifyToken rejects (wrong signature, expired, not a JWT)
InvalidToken == -1

\* score and maxScore are numbers with fractions: they count units of
\* 1 / Resolution, a power of two, so that each is a double exactly.  The
\* other numbers of a payload are whole.
Resolution == 4

Points(whole, parts) == Num(whole * Resolution + parts)

\* the columns user.create does not set (the schema's defaults)
UserDefaults == [role |-> "USER", xp |-> 0, level |-> 1, badges |-> <<>>]

MIN_PASSWORD_LENGTH == 6

Email(n) == <<"user", n, "@example.com">>

\* signupSchema.parse(req.body)
SignupValid(body) ==
  /\ body.email # <<>>
  /\ body.passwordLength >= MIN_PASSWORD_LENGTH

\* prisma.user.create({ data: { email, passwordHash, name } })
CreateUser(id, email) ==
  [id |-> id, email |-> email, role |-> UserDefaults.role, xp |-> UserDefaults.xp,
   level |-> UserDefaults.level, badges |-> UserDefaults.badges]

\* the middleware authenticate: the token names the user it was signed for
authenticate(token) ==
  LET user == SelectSeq(users, LAMBDA u : u.id = token)
  IN  IF token = NoToken
        THEN [ok |-> FALSE, status |-> 401, error |-> "Access denied. No token provided."]
      ELSE IF token = InvalidToken
        THEN [ok |-> FALSE, status |-> 401, error |-> "Invalid token."]
      ELSE IF user = <<>>
        THEN [ok |-> FALSE, status |-> 401, error |-> "User not found."]
      ELSE [ok |-> TRUE, user |-> user[1]]

(***************************************************************************)
(* XP and badges of a score (POST /:gameId/score, both routers).           *)
(***************************************************************************)
ScoreFields == {"score", "maxScore", "timeSpent", "correctAnswers", "totalQuestions"}

\* the zod schema of the payload
ScoreDataValidAnyTotal(body) ==
  /\ \A field \in ScoreFields : body[field].kind = "number"
  /\ body.score.n >= 0
  /\ body.maxScore.n >= 1 * Resolution
  /\ body.timeSpent.n >= 0
  /\ body.correctAnswers.n >= 0

ScoreDataValid(body) ==
  /\ \A field \in ScoreFields : body[field].kind = "number"
  /\ body.score.n >= 0
  /\ body.maxScore.n >= 1 * Resolution
  /\ body.timeSpent.n >= 0
  /\ body.correctAnswers.n >= 0
  /\ body.totalQuestions.n >= 1

XP_PER_POINT == 10

\* Math.floor(scoreData.score * 10)
BaseXp(score) == (score * XP_PER_POINT) \div Resolution

\* percentage = (score / maxScore) * 100, compared with a threshold
PercentageIs(score, maxScore, threshold) == 100 * score = threshold * maxScore

PercentageAbove(score, maxScore, threshold) == 100 * score > threshold * maxScore

PercentageAtLeast(score, maxScore, threshold) == 100 * score >= threshold * maxScore

EXCELLENCE_BONUS == 20

PerfectBonusAsExcellence == EXCELLENCE_BONUS

PERFECT_BONUS == 50

GREAT_JOB_BONUS == 10

SPEED_BONUS == 15

SPEED_LIMIT == 60

\* the if / else if chain over percentage
TierAward(score, maxScore) ==
  IF PercentageIs(score, maxScore, 100)
    THEN [badges |-> <<"Perfect Score">>, xp |-> PERFECT_BONUS]
  ELSE IF PercentageAtLeast(score, maxScore, 90)
    THEN [badges |-> <<"Excellence">>, xp |-> EXCELLENCE_BONUS]
  ELSE IF PercentageAtLeast(score, maxScore, 75)
    THEN [badges |-> <<"Great Job">>, xp |-> GREAT_JOB_BONUS]
  ELSE [badges |-> <<>>, xp |-> 0]

SpeedAward(timeSpent) ==
  IF timeSpent < SPEED_LIMIT
  THEN [badges |-> <<"Speed Learner">>, xp |-> SPEED_BONUS]
  ELSE [badges |-> <<>>, xp |-> 0]

Award(scoreData) ==
  LET tier  == TierAward(scoreData.score.n, scoreData.maxScore.n)
      speed == SpeedAward(scoreData.timeSpent.n)
  IN  [xpEarned |-> BaseXp(scoreData.score.n) + tier.xp + speed.xp,
       badges |-> tier.badges \o speed.badges]

\* badges.join(','): the string, as the names and the commas between them
JoinBadges(badges) == Join([i \in 1..Len(badges) |-> <<badges[i]>>], <<",">>)

\* the pieces of str.split(','): piece k lies between comma k - 1 and comma k
SplitCommas(str) ==
  LET commas == SelectSeq(Indices(str), LAMBDA i : str[i] = ",")
      from(k) == IF k = 1 THEN 1 ELSE commas[k - 1] + 1
      to(k)   == IF k = Len(commas) + 1 THEN Len(str) ELSE commas[k] - 1
  IN  [k \in 1..(Len(commas) + 1) |-> SubSeq(str, from(k), to(k))]

\* user.badges ? user.badges.split(',').filter(b => b.length > 0) : []
ExistingBadges(str) ==
  IF str = <<>> THEN <<>>
  ELSE LET kept == SelectSeq(SplitCommas(str), LAMBDA b : Len(b) > 0)
       IN  [i \in 1..Len(kept) |-> kept[i][1]]

XP_PER_LEVEL == 100

NewLevelNoStep(newXP) == 1

NewLevel(newXP) == (newXP \div XP_PER_LEVEL) + 1

\* the data of prisma.user.update after a score
UserAfterScoreNoSet(user, xpEarned, badges) ==
  LET newXP == user.xp + xpEarned
  IN  [user EXCEPT !.xp = newXP, !.level = (newXP \div XP_PER_LEVEL) + 1,
                   !.badges = JoinBadges(ExistingBadges(user.badges) \o badges)]

UserAfterScore(user, xpEarned, badges) ==
  LET newXP == user.xp + xpEarned
      allBadges == Values(Dedupe(ExistingBadges(user.badges) \o badges))
  IN  [user EXCEPT !.xp = newXP, !.level = NewLevel(newXP),
                   !.badges = JoinBadges(allBadges)]

\* the row prisma.score.create stores
ScoreRow(id, gameSessionId, userId, scoreData, award) ==
  [id |-> id, gameSessionId |-> gameSessionId, userId |-> userId,
   score |-> scoreData.score.n, maxScore |-> scoreData.maxScore.n,
   timeSpent |-> scoreData.timeSpent.n,
   correctAnswers |-> scoreData.correctAnswers.n,
   totalQuestions |-> scoreData.totalQuestions.n,
   xpEarned |-> award.xpEarned, badges |-> JoinBadges(award.badges)]

(***************************************************************************)
(* Bounds and inputs of the server.                                        *)
(***************************************************************************)
\* the addresses people sign up with, and a body without one
Emails == {Email(1), Email(2)}

MaxUploads == 2

MaxScores == 2

MaxSessions == MaxUploads + 1

\* no token, or the token a signup or login gave to a user
Tokens == {NoToken} \cup {users[i].id : i \in 1..Len(users)}

\* the ids of the rows of a table, and one id more
IdsTried(table) == 1..(Len(table) + 1)

\* the text of a fetched page: two words, long enough for extractTextFromUrl
PageText == <<"p", "a", "g", "e", " ">> \o Repeat("b", MIN_TEXT_LENGTH)

\* the text of a stored upload, of another wording
LessonText == <<"t", "i", "d", "e", "s", " ">> \o Repeat("a", MIN_TEXT_LENGTH)

ScoreBody(score, maxScore, timeSpent, correctAnswers, totalQuestions) ==
  [score |-> score, maxScore |-> maxScore, timeSpent |-> timeSpent,
   correctAnswers |-> correctAnswers, totalQuestions |-> totalQuestions]

\* 100 %, 90 %, between 75 % and 90 %, 80 %, 75 %, below 75 %, above 100 %
ValidBodies ==
  { ScoreBody(sm[1], sm[2], Num(60), Num(3), Num(4)) :
      sm \in { <<Points(10, 0), Points(10, 0)>>, <<Points(9, 0), Points(10, 0)>>,
               <<Points(8, 3), Points(10, 0)>>, <<Points(8, 0), Points(10, 0)>>,
               <<Points(3, 0), Points(4, 0)>>, <<Points(7, 1), Points(10, 0)>>,
               <<Points(12, 0), Points(10, 0)>> } }
  \cup
  { ScoreBody(sm[1], sm[2], Num(59), Num(3), Num(4)) :
      sm \in { <<Points(10, 0), Points(10, 0)>>, <<Points(8, 0), Points(10, 0)>>,
               <<Points(7, 1), Points(10, 0)>> } }

InvalidBodies ==
  LET ok == ScoreBody(Points(8, 0), Points(10, 0), Num(60), Num(3), Num(4))
  IN  { [ok EXCEPT !.score = Num(-1)],
        [ok EXCEPT !.score = Undefined],
        [ok EXCEPT !.maxScore = Points(0, Resolution - 1)],
        [ok EXCEPT !.timeSpent = Num(-1)],
        [ok EXCEPT !.correctAnswers = Num(-1)],
        [ok EXCEPT !.totalQuestions = Num(0)] }

ScoreBodies == ValidBodies \cup InvalidBodies

(***************************************************************************)
(* The requests.                                                           *)
(***************************************************************************)
\* POST /api/auth/signup
SignUp ==
  \E email \in Emails \cup {<<>>},
     passwordLength \in {MIN_PASSWORD_LENGTH - 1, MIN_PASSWORD_LENGTH} :
    LET body == [email |-> email, passwordLength |-> passwordLength]
        existingUser == SelectSeq(users, LAMBDA u : u.email = body.email)
        user == CreateUser(Len(users) + 1, body.email)
    IN  /\ req' = [route |-> "POST /api/auth/signup", body |-> body]
        /\ IF ~SignupValid(body)
             THEN /\ resp' = [status |-> 400, error |-> "Invalid input"]
                  /\ UNCHANGED users
           ELSE IF existingUser # <<>>
             THEN /\ resp' = [status |-> 400, error |-> "User already exists"]
                  /\ UNCHANGED users
           ELSE /\ users' = Append(users, user)
                /\ resp' = [status |-> 201, user |-> user, token |-> user.id]
        /\ UNCHANGED <<arg, ret, uploads, sessions, scores, quiz, gamesRouter, client, handlers, auditLogs>>

\* what extractTextFromUrl yields: the page's text, or its one rethrown error
UrlExtracted == [ok |-> TRUE, error |-> <<>>, text |-> PageText]

UrlFailed ==
  [ok |-> FALSE, error |-> <<"Failed to extract text from URL: Failed to fetch URL">>,
   text |-> <<>>]

\* The handlers await the extraction in one statement, outside any loop.
\* outcomes[i] is what an i-th call of the extraction would yield; the
\* handler sees the first one only.
ExtractWithRetry(outcomes) ==
  IF \E i \in DOMAIN outcomes : outcomes[i].ok
    THEN outcomes[CHOOSE i \in DOMAIN outcomes :
                    outcomes[i].ok /\ \A j \in 1..(i - 1) : ~outcomes[j].ok]
  ELSE outcomes[1]

ExtractOnce(outcomes) == outcomes[1]

\* a first call with at most one further call behind it
Attempts(first, later) == {<<a>> : a \in first} \cup {<<a, b>> : a \in first, b \in later}

\* the fetch succeeds, or fails at first and would succeed when repeated
UrlOutcomes == {<<UrlExtracted>>, <<UrlFailed, UrlExtracted>>}

\* the row prisma.upload.create stores
NewUploadProcessed(id, userId, text) ==
  [id |-> id, userId |-> userId, extractedText |-> text, isProcessed |-> TRUE]

NewUpload(id, userId, text) ==
  [id |-> id, userId |-> userId, extractedText |-> text, isProcessed |-> FALSE]

\* POST /api/upload/url
PostUrl ==
  \E token \in Tokens, outcomes \in UrlOutcomes :
    LET auth == authenticate(token)
        extractedContent == ExtractOnce(outcomes)
    IN  /\ req' = [route |-> "POST /api/upload/url", token |-> token,
                   outcomes |-> outcomes]
        /\ IF ~auth.ok
             THEN /\ resp' = [status |-> auth.status, error |-> auth.error]
                  /\ UNCHANGED uploads
           ELSE IF ~extractedContent.ok
             THEN /\ resp' = [status |-> 500, error |-> extractedContent.error]
                  /\ UNCHANGED uploads
           ELSE /\ Len(uploads) < MaxUploads
                /\ uploads' = Append(uploads,
                     NewUpload(Len(uploads) + 1, auth.user.id, extractedContent.text))
                /\ resp' = [status |-> 201, uploadId |-> Len(uploads) + 1]
        /\ UNCHANGED <<arg, ret, users, sessions, scores, quiz, gamesRouter, client, handlers, auditLogs>>

\* multipart bodies of POST /api/upload/file: no file part, or a file that
\* passed validateFile together with what its parsing library yields
NoFile == [present |-> FALSE]

SentFile(buffer, mimeType, libs) ==
  [present |-> TRUE, buffer |-> buffer, originalname |-> "notes",
   mimetype |-> mimeType, libs |-> libs]

SentFiles ==
  { SentFile(Repeat("a", k), MIME_TEXT, <<NoLib>>) :
      k \in {MIN_TEXT_LENGTH - 1, MIN_TEXT_LENGTH} }
  \cup { SentFile(<<>>, m, libs) :
           m \in {MIME_PDF, MIME_DOCX},
           libs \in Attempts({LibThrew("Invalid PDF structure"),
                              LibText(Repeat("a", MIN_TEXT_LENGTH), 3)},
                             {LibText(Repeat("a", MIN_TEXT_LENGTH), 3)}) }

FileOutcomes(file) ==
  [i \in DOMAIN file.libs |->
     extractTextFromFile(file.buffer, file.originalname, file.mimetype, file.libs[i])]

\* POST /api/upload/file. The route has no authenticate middleware, so
\* req.user is undefined and req.user!.id throws inside the try block
\* before prisma.upload.create is called.
PostFile ==
  \E file \in {NoFile} \cup SentFiles :
    /\ req' = [route |-> "POST /api/upload/file", file |-> file]
    /\ IF ~file.present
         THEN resp' = [status |-> 400, error |-> <<"No file uploaded">>]
       ELSE LET extractedContent == ExtractOnce(FileOutcomes(file))
            IN  IF ~extractedContent.ok
                  THEN resp' = [status |-> 500, error |-> extractedContent.error]
                ELSE resp' = [status |-> 500,
                              error |-> <<"Cannot read properties of undefined (reading 'id')">>]
    /\ UNCHANGED <<arg, ret, users, uploads, sessions, scores, quiz, gamesRouter, client, handlers, auditLogs>>

\* str.split(' '): piece k lies between space k - 1 and space k
SplitSpaces(str) ==
  LET spaces == SelectSeq(Indices(str), LAMBDA i : str[i] = " ")
      from(k) == IF k = 1 THEN 1 ELSE spaces[k - 1] + 1
      to(k)   == IF k = Len(spaces) + 1 THEN Len(str) ELSE spaces[k] - 1
  IN  [k \in 1..(Len(spaces) + 1) |-> SubSeq(str, from(k), to(k))]

AI_MAX_TOKENS == 6000

TOPIC_WORDS == 5

KEY_TOPICS == 3

\* games.ts 191-466: the mock game, as the fields that depend on the text.
\* searchMediaContent finds nothing (allMedia stays empty), so mediaContent
\* is undefined.
generateGameWithAI(text) ==
  LET processedText == truncateTextForAI(text, AI_MAX_TOKENS)
      keyConcepts   == extractKeyConceptsFromText(processedText, <<>>).value
      words         == SplitSpaces(processedText)
      topicWords    == SubSeq(words, 1, Min(Len(words), TOPIC_WORDS))
      mainTopic     == Join(topicWords, <<" ">>)
  IN  [title |-> <<"Interactive Learning: ">> \o mainTopic \o Ellipsis,
       subject |-> IF keyConcepts = <<>> THEN <<"learning">> ELSE keyConcepts[1],
       keyTopics |-> SubSeq(keyConcepts, 1, Min(Len(keyConcepts), KEY_TOPICS)),
       mediaContent |-> "undefined"]

\* "Check if already processed": findFirst({ uploadId, gameType: 'INTERACTIVE' })
ExistingSessionNever(uploadId) == <<>>

ExistingSession(uploadId) ==
  SelectSeq(sessions, LAMBDA g : g.uploadId = uploadId /\ g.gameType = "INTERACTIVE")

\* the handler of POST /process; owner is what the handler reads for the
\* session's userId: null in games.ts, req.user!.id in auth.ts, which throws
\* because no middleware of that route sets req.user
HandleProcess(route, uploadId, owner) ==
  LET found == SelectSeq(uploads, LAMBDA u : u.id = uploadId)
      upload == found[1]
      existingSession == ExistingSession(uploadId)
      gameSession == [id |-> Len(sessions) + 1, uploadId |-> uploadId,
                      userId |-> owner.id, gameType |-> "INTERACTIVE",
                      isCompleted |-> FALSE]
  IN  /\ req' = [route |-> route, uploadId |-> uploadId]
      /\ IF uploadId = NullId
           THEN /\ resp' = [status |-> 400, error |-> "Invalid input"]
                /\ UNCHANGED <<uploads, sessions>>
         ELSE IF found = <<>>
           THEN /\ resp' = [status |-> 404, error |-> "Upload not found"]
                /\ UNCHANGED <<uploads, sessions>>
         ELSE IF upload.extractedText = <<>>
           THEN /\ resp' = [status |-> 400,
                            error |-> "No text content available for processing"]
                /\ UNCHANGED <<uploads, sessions>>
         ELSE IF existingSession # <<>>
           THEN /\ resp' = [status |-> 200, gameSessionId |-> existingSession[1].id,
                            message |-> "Game already generated for this upload"]
                /\ UNCHANGED <<uploads, sessions>>
         ELSE IF owner.threw
           THEN /\ resp' = [status |-> 500, error |-> "TypeError"]
                /\ UNCHANGED <<uploads, sessions>>
         ELSE /\ Len(sessions) < MaxSessions
              /\ sessions' = Append(sessions, gameSession)
              /\ uploads' = [uploads EXCEPT ![uploadId].isProcessed = TRUE]
              /\ resp' = [status |-> 201, gameSessionId |-> gameSession.id,
                          message |-> "Game generated successfully"]
      /\ UNCHANGED <<arg, ret, users, scores, quiz, gamesRouter, client, handlers, auditLogs>>

\* POST /api/games/process of games.ts
PostProcess ==
  /\ gamesRouter = "games.ts"
  /\ \E uploadId \in {NullId} \cup IdsTried(uploads) :
       HandleProcess("POST /api/games/process", uploadId,
                     [threw |-> FALSE, id |-> NullId])

\* POST /api/games/process of auth.ts
PostProcessAsUser ==
  /\ gamesRouter = "auth.ts"
  /\ \E uploadId \in {NullId} \cup IdsTried(uploads) :
       HandleProcess("POST /api/games/process", uploadId,
                     [threw |-> TRUE, id |-> NullId])

CompleteSession(gameId) == [sessions EXCEPT ![gameId].isCompleted = TRUE]

\* the handler of POST /:gameId/score in games.ts
SubmitScore(gameId, body) ==
  LET gameSession == SelectSeq(sessions, LAMBDA g : g.id = gameId)
      award == Award(body)
  IN  /\ req' = [route |-> "POST /api/games/:gameId/score", gameId |-> gameId,
                 token |-> NoToken, body |-> body]
      /\ IF ~ScoreDataValid(body)
           THEN /\ resp' = [status |-> 400, error |-> "Invalid score data"]
                /\ UNCHANGED <<scores, sessions>>
         ELSE IF gameSession = <<>>
           THEN /\ resp' = [status |-> 404, error |-> "Game not found"]
                /\ UNCHANGED <<scores, sessions>>
         ELSE /\ scores' = Append(scores,
                   ScoreRow(Len(scores) + 1, gameId, NullId, body, award))
              /\ sessions' = CompleteSession(gameId)
              /\ resp' = [status |-> 201, scoreId |-> Len(scores) + 1,
                          xpEarned |-> award.xpEarned, badges |-> award.badges]
      /\ UNCHANGED <<arg, ret, users, uploads, quiz, gamesRouter, client, handlers, auditLogs>>

\* authenticate and the handler of POST /:gameId/score in auth.ts
SubmitScoreAsUser(gameId, token, body) ==
  LET auth == authenticate(token)
      gameSession ==
        SelectSeq(sessions, LAMBDA g : g.id = gameId /\ g.userId = auth.user.id)
      award == Award(body)
  IN  /\ req' = [route |-> "POST /api/games/:gameId/score", gameId |-> gameId,
                 token |-> token, body |-> body]
      /\ IF ~auth.ok
           THEN /\ resp' = [status |-> auth.status, error |-> auth.error]
                /\ UNCHANGED <<scores, sessions, users>>
         ELSE IF ~ScoreDataValid(body)
           THEN /\ resp' = [status |-> 400, error |-> "Invalid score data"]
                /\ UNCHANGED <<scores, sessions, users>>
         ELSE IF gameSession = <<>>
           THEN /\ resp' = [status |-> 404, error |-> "Game not found"]
                /\ UNCHANGED <<scores, sessions, users>>
         ELSE /\ scores' = Append(scores,
                   ScoreRow(Len(scores) + 1, gameId, auth.user.id, body, award))
              /\ users' = [users EXCEPT ![auth.user.id] =
                             UserAfterScore(@, award.xpEarned, award.badges)]
              /\ sessions' = CompleteSession(gameId)
              /\ resp' = [status |-> 201, scoreId |-> Len(scores) + 1,
                          xpEarned |-> award.xpEarned, badges |-> award.badges]
      /\ UNCHANGED <<arg, ret, uploads, quiz, gamesRouter, client, handlers, auditLogs>>

\* score submissions with every payload
PostScore ==
  /\ gamesRouter = "games.ts"
  /\ Len(scores) < MaxScores
  /\ \E gameId \in IdsTried(sessions), body \in ScoreBodies : SubmitScore(gameId, body)

PostScoreAsUser ==
  /\ gamesRouter = "auth.ts"
  /\ Len(scores) < MaxScores
  /\ \E gameId \in IdsTried(sessions), token \in Tokens, body \in ScoreBodies :
       SubmitScoreAsUser(gameId, token, body)

\* score submissions with one payload that is accepted and one that is not
SampleBodies ==
  { ScoreBody(Points(10, 0), Points(10, 0), Num(59), Num(4), Num(4)),
    ScoreBody(Points(10, 0), Points(10, 0), Num(59), Num(4), Num(0)) }

PostSampleScore ==
  /\ gamesRouter = "games.ts"
  /\ Len(scores) < MaxScores
  /\ \E gameId \in IdsTried(sessions), body \in SampleBodies : SubmitScore(gameId, body)

PostSampleScoreAsUser ==
  /\ gamesRouter = "auth.ts"
  /\ Len(scores) < MaxScores
  /\ \E gameId \in IdsTried(sessions), token \in Tokens, body \in SampleBodies :
       SubmitScoreAsUser(gameId, token, body)

(***************************************************************************)
(* The database a server starts on: empty, or with the rows an earlier     *)
(* run left behind -- a user, an upload of that user, and the game session *)
(* of that upload.  POST /process of games.ts creates sessions without an  *)
(* owner and POST /process of auth.ts creates none, so a session with an   *)
(* owner, which the score route of auth.ts asks for, comes from there.     *)
(***************************************************************************)
EmptyDatabase ==
  [users |-> <<>>, uploads |-> <<>>, sessions |-> <<>>]

SessionDatabase(owner) ==
  [users |-> <<CreateUser(1, Email(1))>>,
   uploads |-> <<[id |-> 1, userId |-> 1, extractedText |-> PageText,
                  isProcessed |-> TRUE]>>,
   sessions |-> <<[id |-> 1, uploadId |-> 1, userId |-> owner,
                   gameType |-> "INTERACTIVE",
                   isCompleted |-> FALSE]>>]

InitOn(databases) ==
  /\ arg = NoArg /\ ret = NoRet /\ quiz = NoQuiz
  /\ req = NoArg /\ resp = NoRet
  /\ handlers = AllIdle
  /\ client = NoClient
  /\ auditLogs = <<>>
  /\ gamesRouter \in {"games.ts", "auth.ts"}
  /\ \E db \in databases :
       /\ users = db.users
       /\ uploads = db.uploads
       /\ sessions = db.sessions
  /\ scores = <<>>

\* signups, uploads, game generation and score submissions
Init == InitOn({EmptyDatabase, SessionDatabase(1)})

Next ==
  \/ SignUp
  \/ PostUrl
  \/ PostProcess
  \/ PostProcessAsUser
  \/ PostSampleScore
  \/ PostSampleScoreAsUser

Spec == Init /\ [][Next]_vars

\* signups and uploads of files and URLs
NextUpload ==
  \/ SignUp
  \/ PostUrl
  \/ PostFile

SpecUpload == Init /\ [][NextUpload]_vars

\* signups and score submissions on a database with a game session
InitScores == InitOn({SessionDatabase(NullId), SessionDatabase(1)})

NextScores ==
  \/ SignUp
  \/ PostScore
  \/ PostScoreAsUser

SpecScores == InitScores /\ [][NextScores]_vars

(***************************************************************************)
(* Score submissions: what was asked, and what the server answered.        *)
(***************************************************************************)
ScoreRoute == "POST /api/games/:gameId/score"

\* the last request was a score submission and the server accepted it
ScoreAccepted ==
  /\ req # NoArg
  /\ req.route = ScoreRoute
  /\ resp.status = 201

\* floor(score * 10) of a score of n units: the largest integer not above it
FloorOfTenTimes(n) ==
  CHOOSE f \in 0..(10 * n) : f * Resolution <= 10 * n /\ (f + 1) * Resolution > 10 * n

Granted(badge) == \E i \in 1..Len(resp.badges) : resp.badges[i] = badge

\* C6 as the specification states it: the XP of a 100 % and of an 80 % score
\* is floor(score * 10) + 50 and floor(score * 10) + 10
C6_AsStated ==
  ScoreAccepted =>
    LET score == req.body.score.n
        maxScore == req.body.maxScore.n
    IN  /\ score = maxScore =>
             /\ Granted("Perfect Score")
             /\ resp.xpEarned = FloorOfTenTimes(score) + 50
        /\ 10 * score = 8 * maxScore =>
             /\ Granted("Great Job")
             /\ resp.xpEarned = FloorOfTenTimes(score) + 10

(***************************************************************************)
(* C6.  An accepted submission with score = maxScore is granted "Perfect   *)
(* Score" and one with score / maxScore = 0.8 is granted "Great Job"; its  *)
(* xpEarned is floor(score * 10) + 50, respectively + 10, when timeSpent   *)
(* is 60 or more, and 15 more than that, with "Speed Learner" granted as   *)
(* well, when timeSpent is below 60.                                       *)
(***************************************************************************)
C6_PerfectAndGreatJob ==
  ScoreAccepted =>
    LET score == req.body.score.n
        maxScore == req.body.maxScore.n
        fast == req.body.timeSpent.n < 60
        extra == IF fast THEN 15 ELSE 0
    IN  /\ score = maxScore =>
             /\ Granted("Perfect Score")
             /\ resp.xpEarned = FloorOfTenTimes(score) + 50 + extra
        /\ 10 * score = 8 * maxScore =>
             /\ Granted("Great Job")
             /\ resp.xpEarned = FloorOfTenTimes(score) + 10 + extra
        /\ (score = maxScore \/ 10 * score = 8 * maxScore) =>
             (Granted("Speed Learner") <=> fast)

C6_Witness ==
  /\ ScoreAccepted
  /\ 10 * req.body.score.n = 8 * req.body.maxScore.n
  /\ req.body.timeSpent.n < 60
  /\ resp.badges = <<"Great Job", "Speed Learner">>
  /\ resp.xpEarned = 80 + 10 + 15

(***************************************************************************)
(* C7.  The badges of an accepted submission follow the rule table:        *)
(* exactly 100 % grants only "Perfect Score" (+50), otherwise 90 % or more *)
(* grants only "Excellence" (+20), otherwise 75 % or more grants only      *)
(* "Great Job" (+10), otherwise no tier badge; at most one tier badge is   *)
(* granted; "Speed Learner" (+15) is granted if and only if timeSpent is   *)
(* below 60.                                                               *)
(***************************************************************************)
TierBadges == {"Perfect Score", "Excellence", "Great Job"}

BonusIfGranted(badge, bonus) == IF Granted(badge) THEN bonus ELSE 0

C7_BadgeRuleTable ==
  ScoreAccepted =>
    LET score == req.body.score.n
        maxScore == req.body.maxScore.n
        granted == Range(resp.badges)
    IN  /\ Len(resp.badges) = Cardinality(granted)
        /\ granted \subseteq TierBadges \cup {"Speed Learner"}
        /\ Cardinality(granted \cap TierBadges) <= 1
        /\ Granted("Perfect Score") <=> score = maxScore
        /\ Granted("Excellence") <=>
             (score # maxScore /\ 100 * score >= 90 * maxScore)
        /\ Granted("Great Job") <=>
             (100 * score < 90 * maxScore /\ 100 * score >= 75 * maxScore)
        /\ Granted("Speed Learner") <=> req.body.timeSpent.n < 60
        /\ resp.xpEarned = FloorOfTenTimes(score)
                             + BonusIfGranted("Perfect Score", 50)
                             + BonusIfGranted("Excellence", 20)
                             + BonusIfGranted("Great Job", 10)
                             + BonusIfGranted("Speed Learner", 15)

C7_Witness ==
  /\ ScoreAccepted
  /\ 100 * req.body.score.n = 90 * req.body.maxScore.n
  /\ resp.badges = <<"Excellence">>
  /\ resp.xpEarned = 90 + 20

(***************************************************************************)
(* C8.  A score submission whose payload violates the constraints (score,  *)
(* timeSpent or correctAnswers negative, maxScore < 1, totalQuestions < 1, *)
(* or a field missing) changes no state -- no Score row, no session        *)
(* completed, no XP, level or badge of a user -- and is answered with 400  *)
(* (on the route behind authenticate: by the handler, which a request      *)
(* without a valid token does not reach; that request is answered 401).    *)
(***************************************************************************)
ViolatesConstraints(body) ==
  IF \E field \in ScoreFields : body[field] = Undefined THEN TRUE
  ELSE \/ body.score.n < 0
       \/ body.timeSpent.n < 0
       \/ body.correctAnswers.n < 0
       \/ body.maxScore.n < Resolution
       \/ body.totalQuestions.n < 1

ReachesHandler(token) ==
  gamesRouter = "games.ts" \/ \E i \in 1..Len(users) : users[i].id = token

InvalidScoreRejected ==
  (req'.route = ScoreRoute /\ ViolatesConstraints(req'.body)) =>
    /\ UNCHANGED <<users, uploads, sessions, scores>>
    /\ resp'.status = IF ReachesHandler(req'.token) THEN 400 ELSE 401

C9_LevelFollowsXp ==
  \A i \in 1..Len(users) :
    /\ (users[i].level - 1) * 100 <= users[i].xp
    /\ users[i].xp < users[i].level * 100

C9_Witness ==
  /\ Len(users) = 2
  /\ Len(scores) = 2
  /\ users[1].xp = 87 + 87
  /\ users[1].level = 2
  /\ users[2].xp = 0
  /\ users[2].level = 1

(***************************************************************************)
(* C10.  With requests handled one after the other, an upload never has    *)
(* more than one INTERACTIVE game session: a POST /process for an upload   *)
(* that has one creates no session and returns the id of the session the   *)
(* first call created.                                                     *)
(***************************************************************************)
InteractiveSessions(uploadId) ==
  { i \in 1..Len(sessions) :
      sessions[i].uploadId = uploadId /\ sessions[i].gameType = "INTERACTIVE" }

AtMostOneInteractive ==
  \A uploadId \in 1..Len(uploads) : Cardinality(InteractiveSessions(uploadId)) <= 1

ProcessAgain ==
  (req'.route = "POST /api/games/process" /\ InteractiveSessions(req'.uploadId) # {}) =>
    /\ sessions' = sessions
    /\ resp'.status = 200
    /\ \E first \in InteractiveSessions(req'.uploadId) :
         /\ \A i \in InteractiveSessions(req'.uploadId) : first <= i
         /\ resp'.gameSessionId = sessions[first].id

C10_OneSessionPerUpload == [](AtMostOneInteractive) /\ [][ProcessAgain]_vars

C10_Witness ==
  /\ req # NoArg
  /\ req.route = "POST /api/games/process"
  /\ req.uploadId = 2
  /\ resp.status = 200
  /\ Len(sessions) = 2
  /\ sessions[1].uploadId = 2
  /\ sessions[2].uploadId = 1
  /\ resp.gameSessionId = 1
  /\ sessions[1].isCompleted

(***************************************************************************)
(* Calls of extractTextFromPPTX on a deck of slides slide1.xml ...         *)
(* slideN.xml, each with a text of its own, listed by the archive in one   *)
(* of many orders: ascending, descending or the order of the paths as      *)
(* strings (slide1, slide10, slide2, ...), each with two entries swapped.  *)
(***************************************************************************)
NumSlides == 10

SlideBody(k) == <<"s">> \o Numeral(k)

DeckSlide(k) == Part("slide", k, << <<SlideBody(k)>> >>)

Ascending == [i \in 1..NumSlides |-> i]

Descending == [i \in 1..NumSlides |-> NumSlides + 1 - i]

PathOrder == <<1>> \o [i \in 1..(NumSlides - 9) |-> 9 + i] \o [i \in 1..8 |-> i + 1]

Swapped(order, i, j) ==
  [k \in 1..Len(order) |-> IF k = i THEN order[j] ELSE IF k = j THEN order[i] ELSE order[k]]

DeckOrders ==
  { Swapped(order, i, j) :
      order \in {Ascending, Descending, PathOrder}, i \in 1..NumSlides, j \in 1..NumSlides }

Deck(order) == [i \in 1..Len(order) |-> DeckSlide(order[i])]

InitPptx ==
  /\ \E order \in DeckOrders :
       arg = [fn |-> "extractTextFromPPTX", order |-> order, lib |-> LibZip(Deck(order))]
  /\ ret = NoRet
  /\ InitServerIdle

\* a call of extractTextFromPPTX
ExtractTextFromPPTX ==
  /\ ret = NoRet
  /\ ret' = extractTextFromPPTX(arg.lib)
  /\ UNCHANGED <<arg, users, uploads, sessions, scores, req, resp, quiz, gamesRouter, client, handlers, auditLogs>>

NextPptx == ExtractTextFromPPTX

SpecPptx == InitPptx /\ [][NextPptx]_vars

(***************************************************************************)
(* C11.  For an archive with the slide parts slide1.xml ... slideN.xml,    *)
(* N >= 10, extractTextFromPPTX emits the texts of the slides in ascending *)
(* numeric slide index (slide10 after slide2 and after slide9), whatever   *)
(* the order in which the archive lists the parts.                         *)
(***************************************************************************)
\* where the text of slide k starts in the text returned: the k-th "s"
StartOfSlide(text, k) ==
  CHOOSE p \in 1..Len(text) :
    /\ SubSeq(text, p, p + Len(SlideBody(k)) - 1) = SlideBody(k)
    /\ (p + Len(SlideBody(k)) > Len(text) \/ text[p + Len(SlideBody(k))] = "\n")

C11_NumericSlideOrder ==
  Called("extractTextFromPPTX") =>
    /\ ~ret.threw
    /\ \A k \in 1..NumSlides :
         \E p \in 1..Len(ret.text) :
           /\ SubSeq(ret.text, p, p + Len(SlideBody(k)) - 1) = SlideBody(k)
           /\ (p + Len(SlideBody(k)) > Len(ret.text)
                 \/ ret.text[p + Len(SlideBody(k))] = "\n")
    /\ \A k \in 1..(NumSlides - 1) :
         StartOfSlide(ret.text, k) < StartOfSlide(ret.text, k + 1)
    /\ Len(ret.text) = 2 * (NumSlides - 1) + 2 * 9 + 3 * (NumSlides - 9)

C11_Witness ==
  /\ Called("extractTextFromPPTX")
  /\ arg.order = PathOrder
  /\ NumSlides >= 10
  /\ ~ret.threw
  /\ StartOfSlide(ret.text, 2) < StartOfSlide(ret.text, 9)
  /\ StartOfSlide(ret.text, 9) < StartOfSlide(ret.text, 10)

\* ---------------------------------------------------------------------------
\* Failed extraction in an upload request (upload.ts 34-110)

\* the request that has just been answered got as far as its extraction
ReachedExtraction ==
  IF req'.route = "POST /api/upload/file" THEN req'.file.present
  ELSE IF req'.route = "POST /api/upload/url" THEN authenticate(req'.token).ok
  ELSE FALSE

FirstOutcome(r) ==
  IF r.route = "POST /api/upload/file" THEN FileOutcomes(r.file)[1]
  ELSE r.outcomes[1]

FailedExtractionIsTerminal ==
  (ReachedExtraction /\ ~FirstOutcome(req').ok)
    => /\ resp'.status = 500
       /\ resp'.error = FirstOutcome(req').error
       /\ resp'.error # <<>>
       /\ uploads' = uploads

\* C12: when the extraction of an upload request (POST /file or POST /url)
\* fails, the response is 500 with the extraction's error message, no Upload
\* record is created, and the extraction is not called again: the answer is
\* the same when a second call would have succeeded.
C12_FailedExtractionTerminal == [][FailedExtractionIsTerminal]_vars

\* an authenticated URL upload whose first fetch failed and whose second
\* would have succeeded was answered 500
C12_Witness ==
  /\ req # NoArg
  /\ req.route = "POST /api/upload/url"
  /\ authenticate(req.token).ok
  /\ Len(req.outcomes) = 2
  /\ ~req.outcomes[1].ok /\ req.outcomes[2].ok
  /\ resp.status = 500

\* ---------------------------------------------------------------------------
\* Legacy Word documents (fileProcessing.ts 197-206)

\* C13: extraction of a file of type application/msword always fails and
\* never returns ExtractedContent. The case label shares the body of the
\* DOCX case, which hands the buffer to mammoth and keeps what it returns.
C13_LegacyDocAlwaysFails ==
  (Called("extractTextFromFile") /\ arg.mimeType = MIME_DOC) => ~ret.ok

(***************************************************************************)
(* POST /api/games/process of games.ts, one database call at a time.       *)
(* The handler is an async function: between two awaits the handler of     *)
(* another connection may run.  A step is one prisma call together with    *)
(* the synchronous code around it; handlers[c] holds the locals of the     *)
(* handler suspended on connection c.                                      *)
(***************************************************************************)
Answers(route, uploadId, res) ==
  /\ req' = [route |-> route, uploadId |-> uploadId]
  /\ resp' = res

\* lines 471-488: parse the body, await prisma.upload.findFirst
ProcessFindUpload ==
  \E c \in Connections, uploadId \in {NullId} \cup IdsTried(uploads) :
    LET found == SelectSeq(uploads, LAMBDA u : u.id = uploadId)
    IN  /\ gamesRouter = "games.ts"
        /\ handlers[c] = Idle
        /\ IF uploadId = NullId
             THEN /\ Answers("POST /api/games/process", uploadId,
                             [status |-> 400, error |-> "Invalid input"])
                  /\ UNCHANGED handlers
           ELSE IF found = <<>>
             THEN /\ Answers("POST /api/games/process", uploadId,
                             [status |-> 404, error |-> "Upload not found"])
                  /\ UNCHANGED handlers
           ELSE IF found[1].extractedText = <<>>
             THEN /\ Answers("POST /api/games/process", uploadId,
                             [status |-> 400,
                              error |-> "No text content available for processing"])
                  /\ UNCHANGED handlers
           ELSE /\ handlers' = [handlers EXCEPT ![c] =
                                  [pc |-> "findSession", upload |-> found[1]]]
                /\ UNCHANGED <<req, resp>>
        /\ UNCHANGED <<arg, ret, users, uploads, sessions, scores, quiz, gamesRouter, client, auditLogs>>

\* line 505: what the handler on connection c generates
GeneratedGamePerRequest(c) ==
  [generateGameWithAI(handlers[c].upload.extractedText) EXCEPT !.title = @ \o Numeral(c)]

GeneratedGame(c) == generateGameWithAI(handlers[c].upload.extractedText)

\* lines 490-505: await prisma.gameSession.findFirst, then generate the game
ProcessFindSession ==
  \E c \in Connections :
    /\ handlers[c].pc = "findSession"
    /\ LET upload == handlers[c].upload
           existingSession == ExistingSession(upload.id)
       IN  IF existingSession # <<>>
             THEN /\ Answers("POST /api/games/process", upload.id,
                             [status |-> 200, gameSessionId |-> existingSession[1].id,
                              message |-> "Game already generated for this upload"])
                  /\ handlers' = [handlers EXCEPT ![c] = Idle]
           ELSE /\ handlers' = [handlers EXCEPT ![c] =
                                  [pc |-> "create", upload |-> upload,
                                   gameData |-> GeneratedGame(c)]]
                /\ UNCHANGED <<req, resp>>
    /\ UNCHANGED <<arg, ret, users, uploads, sessions, scores, quiz, gamesRouter, client, auditLogs>>

\* lines 507-516: await prisma.gameSession.create
ProcessCreate ==
  \E c \in Connections :
    /\ handlers[c].pc = "create"
    /\ Len(sessions) < MaxSessions
    /\ LET gameSession == [id |-> Len(sessions) + 1,
                           uploadId |-> handlers[c].upload.id,
                           userId |-> NullId, gameType |-> "INTERACTIVE",
                           gameData |-> handlers[c].gameData,
                           isCompleted |-> FALSE]
       IN  /\ sessions' = Append(sessions, gameSession)
           /\ handlers' = [handlers EXCEPT ![c] =
                             [pc |-> "update", upload |-> handlers[c].upload,
                              gameSession |-> gameSession]]
    /\ UNCHANGED <<arg, ret, users, uploads, scores, req, resp, quiz, gamesRouter, client, auditLogs>>

\* lines 518-531: await prisma.upload.update, then answer
ProcessUpdate ==
  \E c \in Connections :
    /\ handlers[c].pc = "update"
    /\ uploads' = [uploads EXCEPT ![handlers[c].upload.id].isProcessed = TRUE]
    /\ Answers("POST /api/games/process", handlers[c].upload.id,
               [status |-> 201, gameSessionId |-> handlers[c].gameSession.id,
                message |-> "Game generated successfully"])
    /\ handlers' = [handlers EXCEPT ![c] = Idle]
    /\ UNCHANGED <<arg, ret, users, sessions, scores, quiz, gamesRouter, client, auditLogs>>

\* lines 518-540: prisma.upload.update rejects (the database is unreachable,
\* the row is gone); the catch block answers 500 with the error's message,
\* and the session created before stays
UpdateRejected == "prisma.upload.update rejected"

ProcessUpdateFails ==
  \E c \in Connections :
    /\ handlers[c].pc = "update"
    /\ Answers("POST /api/games/process", handlers[c].upload.id,
               [status |-> 500, error |-> UpdateRejected])
    /\ handlers' = [handlers EXCEPT ![c] = Idle]
    /\ UNCHANGED <<arg, ret, users, uploads, sessions, scores, quiz, gamesRouter, client, auditLogs>>

\* a signed-up user with one stored upload, not yet processed
UploadDatabase ==
  [users |-> <<CreateUser(1, Email(1))>>,
   uploads |-> <<[id |-> 1, userId |-> 1, extractedText |-> LessonText,
                  isProcessed |-> FALSE]>>,
   sessions |-> <<>>]

InitProcessing ==
  /\ InitOn({UploadDatabase})
  /\ gamesRouter = "games.ts"

NextProcessing ==
  \/ PostUrl
  \/ ProcessFindUpload
  \/ ProcessFindSession
  \/ ProcessCreate
  \/ ProcessUpdate

SpecProcessing == InitProcessing /\ [][NextProcessing]_vars

\* C14: two POST /process requests for one upload can both pass the lookup
\* for an existing session before either creates its session, which leaves
\* two INTERACTIVE sessions for the upload (the witness); whenever an upload
\* has several INTERACTIVE sessions, they all hold the same gameData.
C14_DuplicatesHoldSameGame ==
  \A uploadId \in 1..Len(uploads) :
    \A i, j \in InteractiveSessions(uploadId) :
      sessions[i].gameData = sessions[j].gameData

\* both requests for upload 1 were answered 201, each with its own session
C14_Witness ==
  /\ Cardinality(InteractiveSessions(1)) = 2
  /\ handlers = AllIdle
  /\ req # NoArg
  /\ req.route = "POST /api/games/process"
  /\ resp.status = 201
  /\ resp.gameSessionId = 2
  /\ Len(uploads) = 2
  /\ InteractiveSessions(2) # {}
  /\ \A i \in InteractiveSessions(1), j \in InteractiveSessions(2) :
       sessions[i].gameData # sessions[j].gameData

(***************************************************************************)
(* POST /api/games/:gameId/score of auth.ts, one database call at a time.  *)
(***************************************************************************)
\* lines 549-569: authenticate, parse the body, await prisma.gameSession.findFirst
ScoreFindGame ==
  \E c \in Connections, gameId \in IdsTried(sessions), token \in Tokens,
     body \in SampleBodies \cup {ScoreBody(Points(8, 0), Points(10, 0), Num(60), Num(3), Num(4))} :
    LET auth == authenticate(token)
        gameSession ==
          SelectSeq(sessions, LAMBDA g : g.id = gameId /\ g.userId = auth.user.id)
        answered(res) ==
          /\ req' = [route |-> ScoreRoute, gameId |-> gameId, token |-> token,
                     body |-> body]
          /\ resp' = res
          /\ UNCHANGED handlers
    IN  /\ gamesRouter = "auth.ts"
        /\ handlers[c] = Idle
        /\ IF ~auth.ok
             THEN answered([status |-> auth.status, error |-> auth.error])
           ELSE IF ~ScoreDataValid(body)
             THEN answered([status |-> 400, error |-> "Invalid score data"])
           ELSE IF gameSession = <<>>
             THEN answered([status |-> 404, error |-> "Game not found"])
           ELSE /\ handlers' = [handlers EXCEPT ![c] =
                                  [pc |-> "createScore", gameId |-> gameId,
                                   token |-> token, body |-> body,
                                   award |-> Award(body)]]
                /\ UNCHANGED <<req, resp>>
        /\ UNCHANGED <<arg, ret, users, uploads, sessions, scores, quiz, gamesRouter, client, auditLogs>>

\* lines 594-607: await prisma.score.create
ScoreCreate ==
  \E c \in Connections :
    /\ handlers[c].pc = "createScore"
    /\ Len(scores) < MaxScores
    /\ scores' = Append(scores,
         ScoreRow(Len(scores) + 1, handlers[c].gameId, handlers[c].token,
                  handlers[c].body, handlers[c].award))
    /\ handlers' = [handlers EXCEPT ![c] =
                      [@ EXCEPT !.pc = "findUser"] @@ [scoreId |-> Len(scores) + 1]]
    /\ UNCHANGED <<arg, ret, users, uploads, sessions, req, resp, quiz, gamesRouter, client, auditLogs>>

\* lines 609-612: await prisma.user.findUnique
ScoreFindUser ==
  \E c \in Connections :
    /\ handlers[c].pc = "findUser"
    /\ handlers' = [handlers EXCEPT ![c] =
                      [@ EXCEPT !.pc = "updateUser"] @@ [user |-> users[handlers[c].token]]]
    /\ UNCHANGED <<arg, ret, users, uploads, sessions, scores, req, resp, quiz, gamesRouter, client, auditLogs>>

\* lines 614-628: await prisma.user.update with what was computed from the
\* user read before
ScoreUpdateUser ==
  \E c \in Connections :
    /\ handlers[c].pc = "updateUser"
    /\ LET h == handlers[c]
           data == UserAfterScore(h.user, h.award.xpEarned, h.award.badges)
       IN  users' = [users EXCEPT ![h.token].xp = data.xp,
                                  ![h.token].level = data.level,
                                  ![h.token].badges = data.badges]
    /\ handlers' = [handlers EXCEPT ![c].pc = "complete"]
    /\ UNCHANGED <<arg, ret, uploads, sessions, scores, req, resp, quiz, gamesRouter, client, auditLogs>>

\* lines 630-645: await prisma.gameSession.update, then answer
ScoreComplete ==
  \E c \in Connections :
    /\ handlers[c].pc = "complete"
    /\ LET h == handlers[c]
       IN  /\ sessions' = CompleteSession(h.gameId)
           /\ req' = [route |-> ScoreRoute, gameId |-> h.gameId, token |-> h.token,
                      body |-> h.body]
           /\ resp' = [status |-> 201, scoreId |-> h.scoreId,
                       xpEarned |-> h.award.xpEarned, badges |-> h.award.badges]
    /\ handlers' = [handlers EXCEPT ![c] = Idle]
    /\ UNCHANGED <<arg, ret, users, uploads, scores, quiz, gamesRouter, client, auditLogs>>

InitScoring ==
  /\ InitOn({SessionDatabase(1)})
  /\ gamesRouter = "auth.ts"

NextScoring ==
  \/ ScoreFindGame
  \/ ScoreCreate
  \/ ScoreFindUser
  \/ ScoreUpdateUser
  \/ ScoreComplete

SpecScoring == InitScoring /\ [][NextScoring]_vars

\* the sum of xpEarned over the Score records stored for a user
RECURSIVE XpOfScores(_, _)
XpOfScores(userId, n) ==
  IF n = 0 THEN 0
  ELSE XpOfScores(userId, n - 1) +
       (IF scores[n].userId = userId THEN scores[n].xpEarned ELSE 0)

StoredBadges(str) == IF str = <<>> THEN <<>> ELSE SplitCommas(str)

\* the badges granted by the submissions stored for a user
BadgesGranted(userId) ==
  UNION { Range(ExistingBadges(scores[n].badges)) :
            n \in {k \in 1..Len(scores) : scores[k].userId = userId} }

BadgeListIsUnion(user) ==
  LET list == StoredBadges(user.badges)
  IN  /\ \A i \in 1..Len(list) : Len(list[i]) = 1
      /\ \A i, j \in 1..Len(list) : list[i] = list[j] => i = j
      /\ {list[i][1] : i \in 1..Len(list)} = BadgesGranted(user.id)

\* C16: after any sequence of score submissions, the badge list stored for
\* a user has no duplicate and no empty entry, and its entries are exactly
\* the badges granted by the submissions of that user.
C16_BadgeListIsUnion == \A i \in 1..Len(users) : BadgeListIsUnion(users[i])

\* two submissions of user 1 that both granted Speed Learner, with
\* different tier badges
C16_Witness ==
  /\ Len(scores) = 2
  /\ scores[1].userId = 1 /\ scores[2].userId = 1
  /\ Len(ExistingBadges(scores[1].badges)) = 2
  /\ Len(ExistingBadges(scores[2].badges)) = 2
  /\ Cardinality(BadgesGranted(1)) = 3
  /\ Len(StoredBadges(users[1].badges)) = 3

\* ---------------------------------------------------------------------------
\* isProcessed (games.ts 504-525; upload.ts 46-56, 81-91)

ProcessedHasSession ==
  \A i \in 1..Len(uploads) :
    uploads[i].isProcessed => InteractiveSessions(uploads[i].id) # {}

\* a step that marks an upload finds the session of that upload stored
MarkedAfterStored ==
  \A i \in 1..Len(uploads) :
    (~uploads[i].isProcessed /\ uploads'[i].isProcessed)
      => \E k \in InteractiveSessions(uploads[i].id) :
           /\ sessions'[k] = sessions[k]
           /\ sessions[k].gameData = generateGameWithAI(uploads[i].extractedText)

NewUploadUnprocessed ==
  \A i \in (Len(uploads) + 1)..Len(uploads') : ~uploads'[i].isProcessed

\* C17: in every reachable state an upload with isProcessed = true has an
\* INTERACTIVE session referencing it; the step that sets isProcessed comes
\* after the step that stored the generated session; and an upload is
\* created with isProcessed = false.
C17_ProcessedAfterSession ==
  [](ProcessedHasSession) /\ [][MarkedAfterStored /\ NewUploadUnprocessed]_vars

\* the uploaded page has been processed, while the handler working on the
\* first upload has stored its session and not yet marked the upload
C17_Witness ==
  /\ Len(uploads) = 2
  /\ uploads[2].isProcessed /\ InteractiveSessions(2) # {}
  /\ ~uploads[1].isProcessed /\ InteractiveSessions(1) # {}
  /\ \E c \in Connections : handlers[c].pc = "update"

\* ---------------------------------------------------------------------------
\* Full credit for a drag-drop question (part_007 272-302, GameView.tsx 162-184)

\* the answer holds an item in a zone that is not its canonical category
PlacementDiffers(question, answer) ==
  /\ answer.kind = "object"
  /\ \E zone \in DOMAIN answer.zones :
       \E item \in Range(answer.zones[zone]) :
         IF item \in DOMAIN question.correctMapping
         THEN question.correctMapping[item] # zone
         ELSE TRUE

\* what the question at position n added to the score and to correctAnswers
EarnedAt(n) ==
  LET others == calculateScore(OtherQuestions, quiz.selectedAnswers)
  IN  [score |-> ret.score - others.score,
       correct |-> ret.correctAnswers - others.correctAnswers]

FullCreditAt(n) ==
  /\ EarnedAt(n).score = QuestionPoints(quiz.questions[n])
  /\ EarnedAt(n).correct = 1

SentenceEnds(text, maxChars) ==
  { p \in 1..Min(Len(text), maxChars) :
      text[p] = "." /\ 10 * (p - 1) > 8 * maxChars }

\* C19: for a text longer than 4*maxTokens characters, the result is the
\* prefix of the text ending with the last '.' that lies within the budget
\* and after 80% of it; without such a '.', it is the first 4*maxTokens
\* characters followed by "...".
C19_CutsAtLastSentence ==
  (Called("truncateTextForAI") /\ Len(arg.text) > 4 * arg.maxTokens) =>
    LET ends == SentenceEnds(arg.text, 4 * arg.maxTokens)
    IN  IF ends # {}
        THEN \E p \in ends :
               /\ \A q \in ends : q <= p
               /\ ret.value = SubSeq(arg.text, 1, p)
               /\ ret.value[Len(ret.value)] = "."
        ELSE ret.value = SubSeq(arg.text, 1, 4 * arg.maxTokens) \o <<".", ".", ".">>

\* a budget of 20 characters, a '.' after 16 characters and another after
\* 17: the cut is at the second, 18 characters are returned
C19_Witness ==
  /\ Called("truncateTextForAI")
  /\ arg.maxTokens = 5
  /\ Len(arg.text) = 22
  /\ arg.text[17] = "." /\ arg.text[18] = "."
  /\ Len(ret.value) = 18

\* ---------------------------------------------------------------------------
\* The order of the concepts (mediaService.ts 24-112)

\* the tokens of the text that are counted, in the order of the text
CountedTokens(text) == SelectSeq(ConceptWords(text), LAMBDA w : ~IsStopWord(w))

Frequency(tokens, w) == Cardinality({i \in 1..Len(tokens) : tokens[i] = w})

FirstOccurrence(tokens, w) ==
  CHOOSE i \in 1..Len(tokens) : tokens[i] = w /\ \A j \in 1..(i - 1) : tokens[j] # w

\* w comes before v: it is more frequent, or as frequent and met earlier
ComesBefore(tokens, w, v) ==
  \/ Frequency(tokens, w) > Frequency(tokens, v)
  \/ /\ Frequency(tokens, w) = Frequency(tokens, v)
     /\ FirstOccurrence(tokens, w) < FirstOccurrence(tokens, v)

OrderedByFrequency(text, value) ==
  LET tokens == CountedTokens(text)
  IN  /\ \A i \in 1..Len(value) : Len(value[i]) > 3 /\ value[i] \in Range(tokens)
      /\ \A i, j \in 1..Len(value) : i < j => ComesBefore(tokens, value[i], value[j])
      /\ \A w \in Range(tokens) :
           w \in Range(value) \/ \A i \in 1..Len(value) : ComesBefore(tokens, value[i], w)

\* C20: the result holds no token of three characters or fewer and lists
\* the counted tokens by descending frequency, tokens of equal frequency in
\* the order of their first occurrence in the text, tokens made of digits
\* included.
C20_OrderedByFrequencyThenOccurrence ==
  (Called("extractKeyConceptsFromText") /\ ret.calls = 1)
    => OrderedByFrequency(arg.text, ret.value)

\* the same for the texts whose counted tokens are no array indices
NoIntegerKey(text) ==
  \A w \in Range(CountedTokens(text)) : ~IsIntegerKey(w)

OrderedWithoutIntegerKeys ==
  (Called("extractKeyConceptsFromText") /\ ret.calls = 1 /\ NoIntegerKey(arg.text))
    => OrderedByFrequency(arg.text, ret.value)

(***************************************************************************)
(* The clean-up against a clean-up that keeps paragraph breaks             *)
(***************************************************************************)
\* The newlines in the whitespace run of s that starts at i.
NewlinesOfRun(s, i) ==
  Cardinality({ j \in i..(SkipWs(s, i) - 1) : s[j] = "\n" })

\* A clean-up that keeps paragraph breaks: a whitespace run holding a blank
\* line (two newlines or more) becomes one blank line, any other run one
\* space, and the ends are trimmed.
KeepingParagraphBreaks(s) ==
  LET starts == SelectSeq(Indices(s),
                  LAMBDA i : s[i] \notin WS \/ i = 1 \/ s[i - 1] \notin WS)
  IN  Trim(Flatten([k \in 1..Len(starts) |->
             IF s[starts[k]] \notin WS THEN <<s[starts[k]]>>
             ELSE IF NewlinesOfRun(s, starts[k]) >= 2 THEN <<"\n", "\n">>
             ELSE <<" ">>]))

\* C21: the text extracted from a text/plain input is the input with every
\* whitespace run collapsed to one space, except that a run holding blank
\* lines is collapsed to exactly one blank line, and with the ends trimmed.
C21_ParagraphBreaksSurvive ==
  (Called("extractTextFromFile") /\ arg.mimeType = MIME_TEXT /\ ret.ok)
  => ret.text = KeepingParagraphBreaks(PlainInput)

(***************************************************************************)
(* calculateScore over answered and unanswered questions of the question   *)
(* types the generator prompt lists (games.ts 99-145): a multiple-choice   *)
(* question, a sequencing question (items and correctOrder, no             *)
(* answerIndex) and a drag-drop question.                                  *)
(***************************************************************************)
MaxQuestions == 2

QuestionIds == <<"q1", "q2", "q3", "q4">>

SequencingQuestion ==
  [id |-> "q2", type |-> "sequencing", points |-> 15,
   items |-> <<>>, categories |-> <<>>,
   hasMapping |-> FALSE, correctMapping |-> <<>>,
   options |-> 0, answerIndex |-> Undefined]

QuestionPool == {ChoiceQuestion, SequencingQuestion, DragDropQuestion(2, 7)}

\* selectedAnswers[question.id]: undefined, an option index, or drop zones
AnswersFor(question) ==
  IF question.type = "drag-drop"
  THEN {Undefined,
        Obj([c \in Range(Categories) |->
               IF c = "X" THEN <<Item(1)>> ELSE <<Item(2)>>]),
        Obj([c \in Range(Categories) |->
               IF c = "X" THEN <<Item(1), Item(2)>> ELSE <<>>])}
  ELSE {Undefined, Num(0), Num(1)}

AnswerPool == UNION { AnswersFor(q) : q \in QuestionPool }

QuestionLists ==
  { [n \in 1..Len(qs) |-> [qs[n] EXCEPT !.id = QuestionIds[n]]] :
      qs \in SeqsUpTo(QuestionPool, MaxQuestions) \ {<<>>} }

InitCalculate ==
  /\ arg = NoArg
  /\ ret = NoRet
  /\ users = <<>> /\ uploads = <<>> /\ sessions = <<>> /\ scores = <<>>
  /\ req = NoArg /\ resp = NoRet
  /\ gamesRouter = "games.ts"
  /\ handlers = AllIdle
  /\ client = NoClient
  /\ auditLogs = <<>>
  /\ \E questions \in QuestionLists :
       \E given \in [1..Len(questions) -> AnswerPool] :
         /\ \A n \in 1..Len(questions) : given[n] \in AnswersFor(questions[n])
         /\ quiz = [StartQuiz(questions) EXCEPT
                      !.selectedAnswers =
                         [id \in DOMAIN @ |->
                            given[CHOOSE n \in 1..Len(questions) :
                                    questions[n].id = id]]]

CalculateScore ==
  /\ QuizShown
  /\ arg' = [fn |-> "calculateScore"]
  /\ ret' = calculateScore(quiz.questions, quiz.selectedAnswers)
  /\ UNCHANGED <<users, uploads, sessions, scores, req, resp, quiz, gamesRouter, client, handlers, auditLogs>>

NextCalculate == CalculateScore

SpecCalculate == InitCalculate /\ [][NextCalculate]_vars

AnsweredQuestions ==
  SelectSeq(quiz.questions, LAMBDA q : quiz.selectedAnswers[q.id] # Undefined)

HasAnswerKey(q) ==
  \/ q.answerIndex # Undefined
  \/ q.type = "drag-drop" /\ q.hasMapping /\ DOMAIN q.correctMapping # {}

UnansweredEarnsNothingWhenKeyed ==
  (Called("calculateScore")
     /\ \A n \in 1..Len(quiz.questions) : HasAnswerKey(quiz.questions[n]))
  => LET answered == calculateScore(AnsweredQuestions, quiz.selectedAnswers)
     IN  /\ ret.score = answered.score
         /\ ret.correctAnswers = answered.correctAnswers

(***************************************************************************)
(* The Score rows kept by the server.                                      *)
(***************************************************************************)
\* floor(maxScore * 10) + 50 + 15: the XP of a perfect score under a minute
MaxXpFor(maxScore) == BaseXp(maxScore) + PERFECT_BONUS + SPEED_BONUS

\* C23: every stored Score row has 0 <= score <= maxScore and
\* correctAnswers <= totalQuestions, and its xpEarned is at most
\* floor(maxScore * 10) + 65.
C23_ScoreRowsWithinBounds ==
  \A i \in 1..Len(scores) :
    /\ 0 <= scores[i].score /\ scores[i].score <= scores[i].maxScore
    /\ scores[i].correctAnswers <= scores[i].totalQuestions
    /\ scores[i].xpEarned <= MaxXpFor(scores[i].maxScore)

(***************************************************************************)
(* Score submissions of one user for one game session.                     *)
(***************************************************************************)
ScoresOf(gameSessionId, userId) ==
  { i \in 1..Len(scores) :
      scores[i].gameSessionId = gameSessionId /\ scores[i].userId = userId }

\* the rows that are the first of their user for their game session
FirstScores(userId) ==
  { i \in 1..Len(scores) :
      /\ scores[i].userId = userId
      /\ \A j \in 1..(i - 1) : j \notin ScoresOf(scores[i].gameSessionId, userId) }

RECURSIVE XpOfRows(_, _)
XpOfRows(rows, n) ==
  IF n = 0 THEN 0
  ELSE XpOfRows(rows, n - 1) + (IF n \in rows THEN scores[n].xpEarned ELSE 0)

NextProcessingFailing ==
  \/ PostUrl
  \/ ProcessFindUpload
  \/ ProcessFindSession
  \/ ProcessCreate
  \/ ProcessUpdate
  \/ ProcessUpdateFails

SpecProcessingFailing == InitProcessing /\ [][NextProcessingFailing]_vars

ProcessSucceeded ==
  /\ req # NoArg
  /\ req.route = "POST /api/games/process"
  /\ resp.status \in {200, 201}

\* C25: whenever POST /process has answered 201 'Game generated
\* successfully' or 200 'Game already generated for this upload', the upload
\* of the request is marked isProcessed.
C25_SuccessMeansProcessed ==
  ProcessSucceeded => uploads[req.uploadId].isProcessed

\* What holds: the 201 answer is given with the upload marked, and both
\* answers with an INTERACTIVE session stored for the upload.
GeneratedMeansProcessed ==
  ProcessSucceeded =>
    /\ resp.status = 201 => uploads[req.uploadId].isProcessed
    /\ InteractiveSessions(req.uploadId) # {}

(***************************************************************************)
(* AuthProvider (Dashboard.tsx).  The client holds the React state user,   *)
(* token, loading and error, the browser's localStorage (key -> value),    *)
(* which outlives a page reload, and the fetches in flight (at most one of *)
(* each function).  A token is written as on the server (the id of its     *)
(* user); null is NoToken for the token and NullId for the user.           *)
(***************************************************************************)
TOKEN_KEY == "upcora_token"

LOGOUT_KEY == "loomify_token"

NoError == "null"

\* localStorage.getItem, setItem, removeItem
GetItem(storage, key) == IF key \in DOMAIN storage THEN storage[key] ELSE NoToken

SetItem(storage, key, value) ==
  [k \in DOMAIN storage \cup {key} |-> IF k = key THEN value ELSE storage[k]]

RemoveItem(storage, key) == [k \in DOMAIN storage \ {key} |-> storage[k]]

\* the accounts whose tokens the server hands out
MaxAccounts == 2

ClientTokens == 1..MaxAccounts

\* how a fetch ends: response.ok, another status with or without an error in
\* its body, or a rejected promise
FetchOutcomes == {"ok", "refused", "refused bare", "network"}

AuthShown == client # NoClient

\* lines 313-326: the state hooks and the effect of a mount (first load or
\* reload); fetches of the page before are dropped with the page
MountWith(storage) ==
  LET savedToken == GetItem(storage, TOKEN_KEY)
  IN  [user |-> NullId,
       token |-> savedToken,
       loading |-> savedToken # NoToken,
       error |-> NoError,
       localStorage |-> storage,
       fetch |-> IF savedToken # NoToken
                   THEN {[fn |-> "fetchUser", authToken |-> savedToken]}
                 ELSE {}]

Mount ==
  /\ AuthShown
  /\ client' = MountWith(client.localStorage)
  /\ arg' = [fn |-> "mount"]
  /\ UNCHANGED <<ret, users, uploads, sessions, scores, req, resp, quiz, gamesRouter, handlers, auditLogs>>

\* lines 328-353: fetchUser after the response of GET /api/auth/me
FetchUserDone ==
  /\ AuthShown
  /\ \E call \in client.fetch, outcome \in FetchOutcomes :
       /\ call.fn = "fetchUser"
       /\ client' =
            IF outcome = "ok"
            THEN [client EXCEPT !.user = call.authToken,
                                !.loading = FALSE, !.fetch = @ \ {call}]
            ELSE [client EXCEPT !.localStorage = RemoveItem(@, TOKEN_KEY),
                                !.token = NoToken,
                                !.loading = FALSE, !.fetch = @ \ {call}]
  /\ arg' = [fn |-> "fetchUser"]
  /\ UNCHANGED <<ret, users, uploads, sessions, scores, req, resp, quiz, gamesRouter, handlers, auditLogs>>

\* lines 355-367 and 387-399: login and signup up to the await of the fetch
Submit(fn) ==
  /\ [fn |-> fn] \notin client.fetch
  /\ client' = [client EXCEPT !.loading = TRUE, !.error = NoError,
                              !.fetch = @ \cup {[fn |-> fn]}]
  /\ arg' = [fn |-> fn]
  /\ UNCHANGED <<ret, users, uploads, sessions, scores, req, resp, quiz, gamesRouter, handlers, auditLogs>>

\* lines 369-385 and 401-417: login and signup after the response
Answered(fn, refused, failed) ==
  /\ [fn |-> fn] \in client.fetch
  /\ \E outcome \in FetchOutcomes, token \in ClientTokens :
       client' =
         IF outcome = "ok"
         THEN [client EXCEPT !.user = token, !.token = token,
                             !.localStorage = SetItem(@, TOKEN_KEY, token),
                             !.loading = FALSE, !.fetch = @ \ {[fn |-> fn]}]
         ELSE [client EXCEPT
                 !.error = IF outcome = "refused" THEN refused
                           ELSE IF outcome = "refused bare" THEN failed
                           ELSE "Network error. Please try again.",
                 !.loading = FALSE, !.fetch = @ \ {[fn |-> fn]}]
  /\ arg' = [fn |-> fn]
  /\ UNCHANGED <<ret, users, uploads, sessions, scores, req, resp, quiz, gamesRouter, handlers, auditLogs>>

Login ==
  /\ AuthShown
  /\ Submit("login")

\* data.error || 'Login failed'
LoginDone ==
  /\ AuthShown
  /\ Answered("login", "Invalid credentials", "Login failed")

Signup ==
  /\ AuthShown
  /\ Submit("signup")

\* data.error || 'Signup failed'
SignupDone ==
  /\ AuthShown
  /\ Answered("signup", "User already exists", "Signup failed")

\* lines 419-423
Logout ==
  /\ AuthShown
  /\ client' = [client EXCEPT !.user = NullId, !.token = NoToken,
                              !.localStorage = RemoveItem(@, LOGOUT_KEY)]
  /\ arg' = [fn |-> "logout"]
  /\ UNCHANGED <<ret, users, uploads, sessions, scores, req, resp, quiz, gamesRouter, handlers, auditLogs>>

\* the first load, in a browser that holds nothing
InitAuthClient ==
  /\ arg = NoArg
  /\ ret = NoRet
  /\ users = <<>> /\ uploads = <<>> /\ sessions = <<>> /\ scores = <<>>
  /\ req = NoArg /\ resp = NoRet
  /\ quiz = NoQuiz
  /\ gamesRouter = "auth.ts"
  /\ handlers = AllIdle
  /\ client = MountWith(<<>>)
  /\ auditLogs = <<>>

NextAuthClient ==
  \/ Mount
  \/ FetchUserDone
  \/ Login
  \/ LoginDone
  \/ Signup
  \/ SignupDone
  \/ Logout

SpecAuthClient == InitAuthClient /\ [][NextAuthClient]_vars

LoggedOut == arg # NoArg /\ arg.fn = "logout"

Mounted == arg # NoArg /\ arg.fn = "mount"

HoldsNoCredentials == client.user = NullId /\ client.token = NoToken

\* C26: after logout user and token are null and the token stored at login
\* is gone from localStorage; a mount that follows a logout restores no
\* session.
C26_LogoutDropsCredentials ==
  [][/\ LoggedOut' => (HoldsNoCredentials' /\ TOKEN_KEY \notin DOMAIN client'.localStorage)
     /\ (LoggedOut /\ Mounted') => HoldsNoCredentials']_vars

(***************************************************************************)
(* hashPassword and comparePassword (lib/auth.ts).  A password is a        *)
(* sequence of characters.  Both hashes are taken as ideal: a bcrypt hash  *)
(* matches exactly the password it was made of, and two SHA-256 digests    *)
(* are equal exactly when their inputs are.  Whether a bcrypt call throws  *)
(* is up to the library.                                                   *)
(***************************************************************************)
HASH_SALT == <<"u", "p", "c", "o", "r", "a", "-", "s", "a", "l", "t">>

COMPARE_SALT == <<"l", "o", "o", "m", "i", "f", "y", "-", "s", "a", "l", "t">>

\* bcrypt.hash(password, 12)
BcryptHash(password) == [alg |-> "bcrypt", of |-> password]

\* bcrypt.compare(password, hash): false for a string that is no bcrypt hash
BcryptCompare(password, hash) == hash.alg = "bcrypt" /\ hash.of = password

\* crypto.createHash('sha256').update(data).digest('hex')
Sha256Hex(data) == [alg |-> "sha256", of |-> data]

\* lines 16-25
hashPassword(password, bcryptThrows) ==
  IF ~bcryptThrows THEN BcryptHash(password)
  ELSE Sha256Hex(password \o HASH_SALT)

\* lines 27-38
comparePassword(password, hash, bcryptThrows) ==
  IF ~bcryptThrows THEN BcryptCompare(password, hash)
  ELSE LET testHash == Sha256Hex(password \o COMPARE_SALT)
       IN  testHash = hash

MaxPasswordLen == 2

Passwords == SeqsUpTo({"a", "b"}, MaxPasswordLen)

InitPassword ==
  /\ InitServerIdle
  /\ arg = NoArg
  /\ ret = NoRet

\* a password hashed at signup and a password compared with it at login
ComparePassword ==
  /\ \E p \in Passwords, q \in Passwords, hashThrows \in BOOLEAN, compareThrows \in BOOLEAN :
       LET hash == hashPassword(p, hashThrows)
       IN  /\ arg' = [fn |-> "comparePassword", hashed |-> p, password |-> q,
                      hash |-> hash, hashThrows |-> hashThrows,
                      compareThrows |-> compareThrows]
           /\ ret' = [value |-> comparePassword(q, hash, compareThrows)]
  /\ UNCHANGED <<users, uploads, sessions, scores, req, resp, quiz, gamesRouter, handlers, client, auditLogs>>

NextPassword == ComparePassword

SpecPassword == InitPassword /\ [][NextPassword]_vars

\* C27: comparePassword(q, hashPassword(p)) is true exactly when q = p,
\* whether bcrypt works or throws in either call.
C27_HashRoundTrips ==
  Called("comparePassword") => (ret.value <=> arg.password = arg.hashed)

\* What holds: the round trip when bcrypt works in both calls, and the
\* rejection of every other password on every path.
BcryptRoundTrips ==
  Called("comparePassword") =>
    /\ (~arg.hashThrows /\ ~arg.compareThrows)
         => (ret.value <=> arg.password = arg.hashed)
    /\ arg.password # arg.hashed => ~ret.value

(***************************************************************************)
(* The admin router (mounted at /api/admin): router.use(authenticate),     *)
(* router.use(requireAdmin), then the handlers.  One action is one request *)
(* taken through the middleware and its handler.                           *)
(***************************************************************************)
\* lib/auth.ts 80-85: whether requireAdmin calls next()
requireStaff(user) == user.role # "USER"

requireAdmin(user) == user.role = "ADMIN"

\* the two middleware in their order
AdminGate(token) ==
  LET auth == authenticate(token)
  IN  IF ~auth.ok THEN [ok |-> FALSE, status |-> auth.status, error |-> auth.error]
      ELSE IF ~requireAdmin(auth.user)
        THEN [ok |-> FALSE, status |-> 403, error |-> "Access denied. Admin required."]
      ELSE [ok |-> TRUE, user |-> auth.user]

Refused(gate) == [status |-> gate.status, error |-> gate.error]

\* z.enum(['USER', 'ADMIN', 'MODERATOR'])
Roles == {"USER", "ADMIN", "MODERATOR"}

MaxAuditLogs == 2

\* no header, a token that does not verify, the tokens of the users, and a
\* token signed for a user that does not exist
AdminTokens == {NoToken, InvalidToken} \cup IdsTried(users)

\* a handler that only reads
AdminRead(route, token, body) ==
  LET gate == AdminGate(token)
  IN  /\ req' = [route |-> route, token |-> token]
      /\ resp' = IF gate.ok THEN body ELSE Refused(gate)
      /\ UNCHANGED <<arg, ret, users, uploads, sessions, scores, quiz, gamesRouter,
                     handlers, client, auditLogs>>

\* GET /stats
AdminStats ==
  /\ \E token \in AdminTokens :
       AdminRead("GET /api/admin/stats", token,
                 [status |-> 200, totalUsers |-> Len(users),
                  totalUploads |-> Len(uploads), totalGames |-> Len(sessions),
                  totalScores |-> Len(scores), recentActivity |-> Len(auditLogs)])

\* GET /users
AdminUsers ==
  /\ \E token \in AdminTokens :
       AdminRead("GET /api/admin/users", token, [status |-> 200, total |-> Len(users)])

\* GET /uploads
AdminUploads ==
  /\ \E token \in AdminTokens :
       AdminRead("GET /api/admin/uploads", token, [status |-> 200, total |-> Len(uploads)])

\* GET /health
AdminHealth ==
  /\ \E token \in AdminTokens :
       AdminRead("GET /api/admin/health", token, [status |-> 200, body |-> "healthy"])

\* PUT /users/:userId/role
AdminUpdateRole ==
  /\ Len(auditLogs) < MaxAuditLogs
  /\ \E token \in AdminTokens, userId \in IdsTried(users), role \in Roles \cup {"OWNER"} :
       LET gate  == AdminGate(token)
           found == { i \in 1..Len(users) : users[i].id = userId }
       IN  /\ req' = [route |-> "PUT /api/admin/users/:userId/role", token |-> token,
                      userId |-> userId, role |-> role]
           /\ IF ~gate.ok
                THEN /\ resp' = Refused(gate)
                     /\ UNCHANGED <<users, auditLogs>>
              ELSE IF role \notin Roles
                THEN /\ resp' = [status |-> 400, error |-> "Invalid role"]
                     /\ UNCHANGED <<users, auditLogs>>
              ELSE IF found = {}
                THEN /\ resp' = [status |-> 500, error |-> "Failed to update user role"]
                     /\ UNCHANGED <<users, auditLogs>>
              ELSE /\ users' = [i \in 1..Len(users) |->
                                  IF i \in found THEN [users[i] EXCEPT !.role = role]
                                  ELSE users[i]]
                   /\ auditLogs' = Append(auditLogs,
                        [userId |-> gate.user.id, action |-> "UPDATE_USER_ROLE",
                         resource |-> "user", resourceId |-> userId])
                   /\ resp' = [status |-> 200, id |-> userId, role |-> role]
  /\ UNCHANGED <<arg, ret, uploads, sessions, scores, quiz, gamesRouter, handlers, client>>

\* DELETE /uploads/:uploadId
AdminDeleteUpload ==
  /\ Len(auditLogs) < MaxAuditLogs
  /\ \E token \in AdminTokens, uploadId \in IdsTried(uploads) :
       LET gate  == AdminGate(token)
           found == { i \in 1..Len(uploads) : uploads[i].id = uploadId }
       IN  /\ req' = [route |-> "DELETE /api/admin/uploads/:uploadId", token |-> token,
                      uploadId |-> uploadId]
           /\ IF ~gate.ok
                THEN /\ resp' = Refused(gate)
                     /\ UNCHANGED <<uploads, auditLogs>>
              ELSE IF found = {}
                THEN /\ resp' = [status |-> 500, error |-> "Failed to delete upload"]
                     /\ UNCHANGED <<uploads, auditLogs>>
              ELSE /\ uploads' = SelectSeq(uploads, LAMBDA u : u.id # uploadId)
                   /\ auditLogs' = Append(auditLogs,
                        [userId |-> gate.user.id, action |-> "DELETE_UPLOAD",
                         resource |-> "upload", resourceId |-> uploadId])
                   /\ resp' = [status |-> 200, message |-> "Upload deleted successfully"]
  /\ UNCHANGED <<arg, ret, users, sessions, scores, quiz, gamesRouter, handlers, client>>

\* an administrator, a user, and an upload of each
AdminDatabase ==
  [users |-> <<[CreateUser(1, Email(1)) EXCEPT !.role = "ADMIN"],
               CreateUser(2, Email(2))>>,
   uploads |-> <<[id |-> 1, userId |-> 1, extractedText |-> <<"t">>,
                  isProcessed |-> FALSE],
                 [id |-> 2, userId |-> 2, extractedText |-> <<"t">>,
                  isProcessed |-> FALSE]>>,
   sessions |-> <<>>]

InitAdmin == InitOn({AdminDatabase})

NextAdmin ==
  \/ AdminStats
  \/ AdminUsers
  \/ AdminUploads
  \/ AdminHealth
  \/ AdminUpdateRole
  \/ AdminDeleteUpload

SpecAdmin == InitAdmin /\ [][NextAdmin]_vars

AdminRoutes ==
  {"GET /api/admin/stats", "GET /api/admin/users", "GET /api/admin/uploads",
   "GET /api/admin/health", "PUT /api/admin/users/:userId/role",
   "DELETE /api/admin/uploads/:uploadId"}

\* the users a token was signed for
Holders(token) == { i \in 1..Len(users) : users[i].id = token }

NoValidUser(token) == token \in {NoToken, InvalidToken} \/ Holders(token) = {}

NotAdmin(token) == \E i \in Holders(token) : users[i].role # "ADMIN"

DatabaseUnchanged == UNCHANGED <<users, uploads, sessions, scores, auditLogs>>

\* C28: a request to an admin route without a valid token of an existing
\* user is answered 401, one with the token of a user whose role is not
\* ADMIN is answered 403, and neither changes a table or writes an audit
\* log entry.
C28_AdminRoutesGuarded ==
  [][(req' # NoArg /\ req'.route \in AdminRoutes) =>
       /\ NoValidUser(req'.token) => (resp'.status = 401 /\ DatabaseUnchanged)
       /\ NotAdmin(req'.token) => (resp'.status = 403 /\ DatabaseUnchanged)]_vars

\* an administrator who gave up the role is refused the deletion of an upload
C28_Witness ==
  /\ req # NoArg
  /\ req.route = "DELETE /api/admin/uploads/:uploadId"
  /\ req.token = 1
  /\ users[1].role = "USER"
  /\ resp.status = 403
  /\ Len(uploads) = 2
  /\ Len(auditLogs) = 1

(***************************************************************************)
(* The drop zones of InteractiveQuiz (part_002 58, 86-104)                 *)
(***************************************************************************)
\* quizzes with a second drag-drop question whose items have the wording of
\* the items of the first
TwoDragDropQuizzes ==
  { <<DragDropQuestion(2, 7), [DragDropQuestion(3, 0) EXCEPT !.id = "q2"]>>,
    <<DragDropQuestion(2, 7), ChoiceQuestion>> }

InitDragDrop ==
  /\ arg = NoArg
  /\ ret = NoRet
  /\ users = <<>> /\ uploads = <<>> /\ sessions = <<>> /\ scores = <<>>
  /\ req = NoArg /\ resp = NoRet
  /\ gamesRouter = "games.ts"
  /\ handlers = AllIdle
  /\ client = NoClient
  /\ auditLogs = <<>>
  /\ \E questions \in TwoDragDropQuizzes : quiz = StartQuiz(questions)

SpecDragDrop == InitDragDrop /\ [][NextQuiz]_vars

\* how often the zones hold the item, over all categories
Occurrences(dropZones, item) ==
  Cardinality({ place \in UNION { {c} \X DOMAIN dropZones[c] : c \in DOMAIN dropZones } :
                  dropZones[place[1]][place[2]] = item })

HeldAtMostOnce(dropZones) ==
  \A item \in Assigned(dropZones) : Occurrences(dropZones, item) = 1

\* a step of handleDrop: the dragged item ends up last in exactly one zone
\* and in no other, wherever it was before
DropMovesItem ==
  (quiz # NoQuiz /\ quiz.draggedItem # Null /\ quiz'.draggedItem = Null
     /\ quiz'.currentQuestion = quiz.currentQuestion)
  => /\ Occurrences(quiz'.dropZones, quiz.draggedItem) = 1
     /\ \E c \in DOMAIN quiz'.dropZones :
          /\ quiz'.dropZones[c] # <<>>
          /\ quiz'.dropZones[c][Len(quiz'.dropZones[c])] = quiz.draggedItem
     /\ \A item \in Assigned(quiz.dropZones) \ {quiz.draggedItem} :
          \A c \in DOMAIN quiz.dropZones :
            item \in Range(quiz.dropZones[c]) => item \in Range(quiz'.dropZones[c])

\* C29: in every state the drop zones hold every item in at most one
\* category and at most once, and a drop moves the dragged item out of the
\* category that held it into the category it is dropped on.
C29_ItemInOneZone ==
  [](quiz # NoQuiz => HeldAtMostOnce(quiz.dropZones)) /\ [][DropMovesItem]_vars

\* an item that lay in category X has been dropped on category Y
C29_Witness ==
  /\ quiz # NoQuiz
  /\ Len(quiz.questions) = 2
  /\ quiz.questions[2].type = "drag-drop"
  /\ quiz.currentQuestion = 1
  /\ quiz.draggedItem = Null
  /\ quiz.selectedAnswers["q2"] # Undefined
  /\ quiz.dropZones["X"] = <<>>
  /\ quiz.dropZones["Y"] = <<Item(2), Item(1)>>

(***************************************************************************)
(* GameView (part_007): the phases of a game.  The client holds gameData   *)
(* (null until loaded; of the loaded data, how many roadmap modules,       *)
(* diagrams and video scenes it has), currentPhase, loading, error and the *)
(* number of score submissions in flight.  The answers of the quiz and the *)
(* score they give are those of InteractiveQuiz and calculateScore above   *)
(* and take no part in the phases.                                         *)
(***************************************************************************)
MaxSections == 1

MaxInFlight == 2

NoGameData == [loaded |-> FALSE]

GameDatas ==
  [loaded : {TRUE}, roadmap : 0..MaxSections, diagrams : 0..MaxSections,
   scenes : 0..MaxSections]

\* gameData.roadmap && gameData.roadmap.length > 0, and so on
HasRoadmap(gameData) == gameData.roadmap > 0

HasDiagrams(gameData) == gameData.diagrams > 0

HasVideo(gameData) == gameData.scenes > 0

\* lines 384-396, 629-640, 654-659, 672: the phase a Continue button sets
NextPhase(phase, gameData) ==
  IF phase = "intro" /\ HasRoadmap(gameData) THEN "roadmap"
  ELSE IF phase \in {"intro", "roadmap"} /\ HasDiagrams(gameData) THEN "diagrams"
  ELSE IF phase \in {"intro", "roadmap", "diagrams"} /\ HasVideo(gameData) THEN "video"
  ELSE "quiz"

\* lines 343-348: the phase after the response to a score submission
PhaseAfterAnyResponse(ok, phase) == "complete"

PhaseAfterResponse(ok, phase) == IF ok THEN "complete" ELSE phase

\* the component renders the phase: not loading, no error, data loaded
PhaseShown(phase) ==
  /\ client # NoClient
  /\ ~client.loading
  /\ client.error = NoError
  /\ client.gameData.loaded
  /\ client.currentPhase = phase

\* lines 198-230: fetchGameData after the response of GET /api/games/:gameId
FetchGameDataDone ==
  /\ client # NoClient
  /\ client.loading
  /\ \E outcome \in {"ok", "refused", "no gameData", "network"}, gameData \in GameDatas :
       client' =
         IF outcome = "ok"
         THEN [client EXCEPT !.gameData = gameData, !.loading = FALSE]
         ELSE [client EXCEPT
                 !.error = IF outcome = "refused" THEN "Failed to load game"
                           ELSE IF outcome = "no gameData"
                             THEN "Invalid game data received"
                           ELSE "Network error while loading game",
                 !.loading = FALSE]
  /\ arg' = [fn |-> "fetchGameData"]
  /\ UNCHANGED <<ret, users, uploads, sessions, scores, req, resp, quiz, gamesRouter,
                 handlers, auditLogs>>

Continue(phase) ==
  /\ PhaseShown(phase)
  /\ client' = [client EXCEPT !.currentPhase = NextPhase(phase, client.gameData)]
  /\ arg' = [fn |-> "onContinue", phase |-> phase]
  /\ UNCHANGED <<ret, users, uploads, sessions, scores, req, resp, quiz, gamesRouter,
                 handlers, auditLogs>>

\* line 603: Begin Your Learning Adventure
BeginAdventure ==
  /\ Continue("intro")

\* lines 620-645
RoadmapContinue ==
  /\ PhaseShown("roadmap")
  /\ HasRoadmap(client.gameData)
  /\ Continue("roadmap")

\* lines 647-664
DiagramsContinue ==
  /\ PhaseShown("diagrams")
  /\ HasDiagrams(client.gameData)
  /\ Continue("diagrams")

\* lines 666-676
VideoContinue ==
  /\ PhaseShown("video")
  /\ HasVideo(client.gameData)
  /\ Continue("video")

\* lines 320-339: Complete Quiz, up to the await of the fetch
SubmitScoreSent ==
  /\ PhaseShown("quiz")
  /\ client.inFlight < MaxInFlight
  /\ client' = [client EXCEPT !.inFlight = @ + 1]
  /\ arg' = [fn |-> "submitScore", outcome |-> "sent"]
  /\ UNCHANGED <<ret, users, uploads, sessions, scores, req, resp, quiz, gamesRouter,
                 handlers, auditLogs>>

\* lines 341-351: submitScore after the response
SubmitScoreDone ==
  /\ client # NoClient
  /\ client.inFlight > 0
  /\ \E outcome \in {"ok", "refused", "refused bare", "network"} :
       /\ client' =
            [client EXCEPT
               !.inFlight = @ - 1,
               !.currentPhase = PhaseAfterResponse(outcome = "ok", @),
               !.error = IF outcome = "ok" THEN @
                         ELSE IF outcome = "refused" THEN "Invalid score data"
                         ELSE IF outcome = "refused bare" THEN "Failed to submit score"
                         ELSE "Network error while submitting score"]
       /\ arg' = [fn |-> "submitScore", outcome |-> outcome]
  /\ UNCHANGED <<ret, users, uploads, sessions, scores, req, resp, quiz, gamesRouter,
                 handlers, auditLogs>>

\* the component after its first render: fetchGameData is in flight
InitGameView ==
  /\ arg = NoArg
  /\ ret = NoRet
  /\ users = <<>> /\ uploads = <<>> /\ sessions = <<>> /\ scores = <<>>
  /\ req = NoArg /\ resp = NoRet
  /\ quiz = NoQuiz
  /\ gamesRouter = "games.ts"
  /\ handlers = AllIdle
  /\ auditLogs = <<>>
  /\ client = [gameData |-> NoGameData, currentPhase |-> "intro", loading |-> TRUE,
               error |-> NoError, inFlight |-> 0]

NextGameView ==
  \/ FetchGameDataDone
  \/ BeginAdventure
  \/ RoadmapContinue
  \/ DiagramsContinue
  \/ VideoContinue
  \/ SubmitScoreSent
  \/ SubmitScoreDone

SpecGameView == InitGameView /\ [][NextGameView]_vars

PhaseOrder == <<"intro", "roadmap", "diagrams", "video", "quiz", "complete">>

PhaseRank(phase) == CHOOSE n \in 1..Len(PhaseOrder) : PhaseOrder[n] = phase

\* the game data has what the phase shows
HasPhase(phase, gameData) ==
  IF phase = "roadmap" THEN HasRoadmap(gameData)
  ELSE IF phase = "diagrams" THEN HasDiagrams(gameData)
  ELSE IF phase = "video" THEN HasVideo(gameData)
  ELSE TRUE

SubmissionAnswered(outcomes) ==
  arg' # NoArg /\ arg'.fn = "submitScore" /\ arg'.outcome \in outcomes

PhaseStep ==
  LET from == client.currentPhase
      to   == client'.currentPhase
  IN  /\ PhaseRank(to) >= PhaseRank(from)
      /\ (to # from /\ to # "complete") =>
           /\ HasPhase(to, client.gameData)
           /\ \A n \in (PhaseRank(from) + 1)..(PhaseRank(to) - 1) :
                ~HasPhase(PhaseOrder[n], client.gameData)
      /\ (to = "complete" /\ from # "complete") =>
           (from = "quiz" /\ SubmissionAnswered({"ok"}))
      /\ SubmissionAnswered({"refused", "refused bare", "network"}) =>
           /\ to = from
           /\ from \in {"quiz", "complete"}
           /\ client'.error # NoError

====
